---- MODULE Spec2Model ----
(***************************************************************************)
(* Retrieval-and-relevance pipeline of the DTMI RAG service.               *)
(*                                                                         *)
(* The module holds several specifications over one set of variables:      *)
(*   SpecFilter  build_filter applied to one drawn input                   *)
(*   SpecEval    per-item evaluate_relevance (cache, fan-out, timeout)     *)
(*   SpecSem     the semaphore of evaluate_relevance, several invocations  *)
(*   Spec        FilterService.get_rag, batched flow                       *)
(*   SpecWindow  the chunk window of expand_one                            *)
(*   SpecDedup   batch_deduplicate applied to one drawn batch              *)
(*   SpecMerge   _deduplicate_and_join_text applied to two adjacent chunks *)
(*   SpecOverlap _merge_with_overlap_detection applied to two texts        *)
(*   SpecStore   chat_history.get_history, concurrent request threads      *)
(*   SpecExpand  batch_expand_text applied to one drawn list of text hits  *)
(* Each specification leaves the variables of the others at their idle     *)
(* values.                                                                 *)
(***************************************************************************)
EXTENDS Integers, Sequences, FiniteSets, TLC

VARIABLES
    fb_in,        \* build_filter: the arguments (modalities, year)
    fb_out,       \* build_filter: the returned (final_filter, filter_msg)
    fb_done,      \* build_filter: has returned
    relevance_cache,  \* deps.relevance_cache: cache key -> "True" | "False" | "None"
    ev_unparsed,  \* cache keys whose entry was written on a reply that did not parse (history)
    ev_pc,        \* evaluate_relevance: "idle", "gather", "returned", "raised"
    ev_docs,      \* evaluate_relevance: docs_to_process
    ev_query,     \* evaluate_relevance: query
    ev_cache0,    \* relevance_cache as read by the partition loop (history)
    ev_cache_results,  \* evaluate_relevance: cache_results
    ev_uncached,  \* evaluate_relevance: uncached
    ev_sem,       \* evaluate_relevance: value of the local asyncio.Semaphore
    ev_task,      \* one eval_one task per uncached candidate
    ev_calls,     \* judgment calls issued in this invocation, per item id (history)
    ev_error,     \* first exception raised by a task of the gather ("" if none)
    ev_result,    \* evaluate_relevance: the returned list
    sm,           \* per concurrent evaluate_relevance invocation: its semaphore and tasks
    rg_pc,        \* get_rag: the stage the request is in
    rg_args,      \* get_rag: query_types, year
    rg_where,     \* get_rag: the predicate built by build_filter
    rg_hits,      \* get_rag: raw_hits
    rg_search,    \* similarity_search: the probe's outcome and the store's answer,
                  \* kept until get_rag goes on from its result
    rg_all_docs,  \* get_rag: all_docs (after expansion)
    rg_preview,   \* get_rag: preview_contents
    rg_sent,      \* the calls made to llm.ainvoke, each the list of its messages (history)
    rg_reply,     \* the outcome of the judgment call (history)
    rg_verdict,   \* get_rag: relevance_evaluation
    rg_relevant,  \* get_rag: relevant_docs
    rg_deduped,   \* get_rag: deduped (after the first dedup)
    rg_bundle,    \* get_rag: the returned dict
    rg_error,     \* get_rag: the exception that left it ("" if none)
    rg_calls,     \* external calls made for this request (history)
    csv_cache,    \* deps.csv_cache: the resolved paths that are cached
    px_in,        \* a function applied on its own: its arguments
    px_out,       \* a function applied on its own: what it returned
    px_done,      \* a function applied on its own: has returned
    ss_count,     \* chat_history._store: len(_store)
    ss_pc         \* get_history: where each request thread is

fbVars == <<fb_in, fb_out, fb_done>>

evVars == <<relevance_cache, ev_unparsed, ev_pc, ev_docs, ev_query, ev_cache0, ev_cache_results,
            ev_uncached, ev_sem, ev_task, ev_calls, ev_error, ev_result>>

smVars == <<sm>>

rgVars == <<rg_pc, rg_args, rg_where, rg_hits, rg_search, rg_all_docs, rg_preview, rg_sent, rg_reply,
            rg_verdict, rg_relevant, rg_deduped, rg_bundle, rg_error, rg_calls, csv_cache>>

pxVars == <<px_in, px_out, px_done>>

ssVars == <<ss_count, ss_pc>>

vars == <<fbVars, evVars, smVars, rgVars, pxVars, ssVars>>

nonFbVars == <<evVars, smVars, rgVars, pxVars, ssVars>>

nonEvVars == <<fbVars, smVars, rgVars, pxVars, ssVars>>

nonSmVars == <<fbVars, evVars, rgVars, pxVars, ssVars>>

nonRgVars == <<fbVars, evVars, smVars, pxVars, ssVars>>

nonPxVars == <<fbVars, evVars, smVars, rgVars, ssVars>>

nonSsVars == <<fbVars, evVars, smVars, rgVars, pxVars>>

----------------------------------------------------------------------------
(* Generic helpers *)

\* No function is being applied on its own.
PxIdle ==
    /\ px_in = <<>>
    /\ px_out = <<>>
    /\ px_done = FALSE

\* chat_history: the module just imported, no request under way.
MaxThreads == 2

Threads == 1..MaxThreads

SsIdle ==
    /\ ss_count = 0
    /\ ss_pc = [t \in Threads |-> "idle"]

Range(s) == {s[i] : i \in 1..Len(s)}

SeqsUpTo(S, n) == UNION {[1..k -> S] : k \in 0..n}

----------------------------------------------------------------------------
(* app/model/enums.py *)

Filter == [TEXT |-> "text", IMAGE |-> "image", ROW_TAB |-> "table_row",
           CAP_TAB |-> "table_caption", TENDIK |-> "tendik"]

Year == [YEAR_SARJANA |-> "SARJANA", YEAR_MAGISTER |-> "MAGISTER",
         YEAR_DOKTOR |-> "DOKTOR", YEAR_GENERAL |-> "GENERAL"]

\* Types that occur in the store: the Filter members and "table_cell"
\* (chroma_types.TableCellMetadata: not in the Filter enum but in the data).
StoreTypes == {"text", "image", "table_row", "table_caption", "tendik", "table_cell"}

----------------------------------------------------------------------------
(* filter_builder.build_filter *)

\* str.lower() on the modality strings of the model
StrLower(s) ==
    CASE s = "TEXT"  -> "text"
      [] s = "Table" -> "table"
      [] s = "ALL"   -> "all"
      [] OTHER       -> s

\* str.upper() on the year strings of the model
StrUpper(s) ==
    CASE s = "sarjana" -> "SARJANA"
      [] s = "Doktor"  -> "DOKTOR"
      [] s = "all"     -> "ALL"
      [] OTHER         -> s

\* A modalities argument: None, a str, or a list of str.
ModNone      == [kind |-> "none", s |-> "",  l |-> <<>>]
ModStr(x)    == [kind |-> "str",  s |-> x,   l |-> <<>>]
ModList(xs)  == [kind |-> "list", s |-> "",  l |-> xs]

\* A year argument: None or a str.
YearNone     == [kind |-> "none", s |-> ""]
YearStr(x)   == [kind |-> "str",  s |-> x]

\* One condition of the "$and" list.
TypeIn(vals)  == [field |-> "type", op |-> "$in",     vals |-> vals]
TypeExists    == [field |-> "type", op |-> "$exists", vals |-> <<>>]
YearOr(y)     == [field |-> "year", op |-> "$or",     vals |-> <<y, Year.YEAR_GENERAL>>]

\* line 10: (modalities or "all").lower() if isinstance(modalities, str) else "all"
QueryTypesOf(modalities) ==
    IF modalities.kind = "str"
    THEN (IF modalities.s = "" THEN "all" ELSE StrLower(modalities.s))
    ELSE "all"

\* line 11: year.upper() if year else None  ("" stands for None)
YearKeyOf(year) ==
    IF year.kind = "str" /\ year.s # "" THEN StrUpper(year.s) ELSE ""

\* lines 14-22, with a final else branch that takes the "all" list
TypeConditionsElseAll(query_types) ==
    CASE query_types = "text"  -> <<Filter.TEXT>>
      [] query_types = "image" -> <<Filter.IMAGE>>
      [] query_types = "table" -> <<Filter.ROW_TAB, Filter.CAP_TAB>>
      [] OTHER                 -> <<Filter.TEXT, Filter.IMAGE, Filter.ROW_TAB, Filter.CAP_TAB>>

\* lines 14-22
TypeConditionsOf(query_types) ==
    CASE query_types = "text"  -> <<Filter.TEXT>>
      [] query_types = "image" -> <<Filter.IMAGE>>
      [] query_types = "table" -> <<Filter.ROW_TAB, Filter.CAP_TAB>>
      [] query_types = "all"   -> <<Filter.TEXT, Filter.IMAGE, Filter.ROW_TAB, Filter.CAP_TAB>>
      [] OTHER                 -> <<>>

\* lines 25-30, without the append of TENDIK
TypeFilterNoTendik(type_conditions) ==
    IF type_conditions # <<>>
    THEN TypeIn(type_conditions)
    ELSE TypeExists

\* lines 25-30
TypeFilterOf(type_conditions) ==
    IF type_conditions # <<>>
    THEN TypeIn(Append(type_conditions, Filter.TENDIK))
    ELSE TypeExists

\* lines 32-39: a one-element list holding the year clause, or the empty list
YearFilterOf(year_key) ==
    IF year_key \in {Year.YEAR_SARJANA, Year.YEAR_MAGISTER, Year.YEAR_DOKTOR}
    THEN <<YearOr(year_key)>>
    ELSE <<>>

\* lines 53-61: the parts joined by " | "
FilterMsgOf(query_types, year_key) ==
    (IF query_types # "all" THEN <<[k |-> "Types", v |-> query_types]>> ELSE <<>>)
    \o (IF year_key # "" THEN <<[k |-> "Year", v |-> year_key]>> ELSE <<>>)
    \o <<[k |-> "+", v |-> "TENDIK always"], [k |-> "+", v |-> "GENERAL always"]>>

\* lines 7-63
build_filter(modalities, year) ==
    LET query_types     == QueryTypesOf(modalities)
        year_key        == YearKeyOf(year)
        type_conditions == TypeConditionsOf(query_types)
        conditions      == <<TypeFilterOf(type_conditions)>> \o YearFilterOf(year_key)
    IN  [where |-> [and |-> conditions], msg |-> FilterMsgOf(query_types, year_key)]

\* Reading a predicate: its type clause, its year clauses, the types a
\* clause admits.
TypeClauseOf(where) == where.and[1]

YearClausesOf(where) == SelectSeq(where.and, LAMBDA c : c.field = "year")

AdmittedTypes(clause) ==
    IF clause.op = "$in" THEN Range(clause.vals) ELSE StoreTypes

----------------------------------------------------------------------------
(* Inputs of build_filter *)

MaxModList == 2

ModalityNames   == {"text", "image", "table"}
ModalityStrings == {"all", "text", "image", "table", "TEXT", "Table", "audio", ""}
YearStrings     == {"SARJANA", "MAGISTER", "DOKTOR", "GENERAL", "sarjana", "2025", "all"}

ModalityInputs ==
    {ModNone} \cup {ModStr(x) : x \in ModalityStrings}
              \cup {ModList(xs) : xs \in SeqsUpTo(ModalityNames, MaxModList)}

YearInputs == {YearNone} \cup {YearStr(y) : y \in YearStrings}

NoFilterOut == [where |-> [and |-> <<>>], msg |-> <<>>]

FbInit ==
    /\ fb_in \in [modalities : ModalityInputs, year : YearInputs]
    /\ fb_out = NoFilterOut
    /\ fb_done = FALSE

BuildFilterCall ==
    /\ ~fb_done
    /\ fb_out' = build_filter(fb_in.modalities, fb_in.year)
    /\ fb_done' = TRUE
    /\ UNCHANGED fb_in
    /\ UNCHANGED nonFbVars

FbIdle ==
    /\ fb_in = [modalities |-> ModNone, year |-> YearNone]
    /\ fb_out = NoFilterOut
    /\ fb_done = FALSE

----------------------------------------------------------------------------
(* Judge replies: the text of response.content as a sequence of tokens.     *)
(* "{" and "}" are braces, "fence" is a code fence marker, "x" is any other *)
(* text, "obj" is the text between a pair of braces that json.loads decodes *)
(* to a dict with the given members.                                        *)

Tok(t) == [t |-> t, is_relevant |-> "absent", ids_kind |-> "absent", ids |-> <<>>]

\* '"is_relevant": <r>' with r in "true", "false", "null"
RelObj(r) == [t |-> "obj", is_relevant |-> r, ids_kind |-> "absent", ids |-> <<>>]

LB == Tok("{")
RB == Tok("}")
FENCE == Tok("fence")
TXT == Tok("x")

\* re.search(r"\{.*\}", text, re.DOTALL): from the first "{" to the last "}";
\* the empty sequence when there is no match.
JsonMatch(text) ==
    LET lbs == {i \in 1..Len(text) : text[i] = LB}
        rbs == {i \in 1..Len(text) : text[i] = RB}
    IN  IF lbs = {} THEN <<>>
        ELSE LET first == CHOOSE i \in lbs : \A j \in lbs : i <= j
                 after == {j \in rbs : j > first}
             IN  IF after = {} THEN <<>>
                 ELSE LET last == CHOOSE j \in after : \A k \in after : k <= j
                      IN  SubSeq(text, first, last)

\* json.loads succeeds on the matched span iff it is "{" members "}".
JsonDecodes(span) == Len(span) = 3 /\ span[2].t = "obj"

----------------------------------------------------------------------------
(* relevance_evaluator.py (per-item): get_cache_key, batch_relevance_check, *)
(* evaluate_relevance                                                       *)

\* Items are identified by metadata["id"]; the score travels with the item.
DocIds == {"a", "b"}

Queries == {"q", " Q ", "r"}

\* query.lower().strip()
NormQuery(q) == IF q = " Q " THEN "q" ELSE q

\* hash() of the normalized query strings of the model
HashOf(s) == IF s = "q" THEN 17 ELSE 23

\* line 14: f"{id}:{hash(query.lower().strip())}"
get_cache_key(doc, query) == [id |-> doc, h |-> HashOf(NormQuery(query))]

CacheKeys == {get_cache_key(d, q) : d \in DocIds, q \in Queries}

\* lines 52-65 with a parse failure that yields no verdict (None) instead of
\* False
ParseFailureIsNoVerdict(response_text) ==
    LET span == JsonMatch(response_text)
    IN  IF span = <<>> \/ ~JsonDecodes(span) THEN "None"
        ELSE CASE span[2].is_relevant = "true"  -> "True"
               [] span[2].is_relevant = "null"  -> "None"
               [] OTHER                         -> "False"

\* lines 52-65: the (is_relevant) member of the returned pair, as the cache
\* stores it: "True", "False" or "None" (JSON null).
ParseRelevance(response_text) ==
    LET span == JsonMatch(response_text)
    IN  IF span = <<>> \/ ~JsonDecodes(span) THEN "False"
        ELSE CASE span[2].is_relevant = "true"  -> "True"
               [] span[2].is_relevant = "null"  -> "None"
               [] OTHER                         -> "False"

\* lines 52-65: the reply takes the "except" branch (no braces to match, or
\* json.loads raises on the matched span).
ParseFails(response_text) ==
    LET span == JsonMatch(response_text)
    IN  span = <<>> \/ ~JsonDecodes(span)

\* The replies the judge gives in the model.
ItemReplies ==
    { <<LB, RelObj("true"), RB>>,
      <<FENCE, LB, RelObj("true"), RB, FENCE>>,
      <<TXT, LB, RelObj("false"), RB>>,
      <<LB, RelObj("null"), RB>>,
      <<LB, RelObj("absent"), RB>>,
      <<LB, TXT, RB>>,
      <<LB, RelObj("true")>>,
      <<TXT>> }

\* lines 72-79 with "if cached_result:" in place of "is not None"
UncachedIfFalsy(docs, query, cache) ==
    SelectSeq(docs, LAMBDA d : cache[get_cache_key(d, query)] # "True")

\* lines 72-79: the candidates with no cached verdict
UncachedOf(docs, query, cache) ==
    SelectSeq(docs, LAMBDA d : cache[get_cache_key(d, query)] = "None")

\* lines 72-77: the candidates with a cached True
CacheResultsOf(docs, query, cache) ==
    SelectSeq(docs, LAMBDA d : cache[get_cache_key(d, query)] = "True")

\* line 82: asyncio.Semaphore(16)
SemWidth == 16

\* a semaphore that never makes an acquirer wait
SemAlwaysFree(value) == TRUE

\* line 85: "async with sem" proceeds iff the semaphore's value is positive
SemFree(value) == value > 0

MaxDocs == 2

NoTask == [st |-> "pending", ret |-> "", v |-> "None"]

EvIdle ==
    /\ ev_pc = "idle"
    /\ ev_docs = <<>>
    /\ ev_query = "q"
    /\ ev_cache0 = [k \in CacheKeys |-> "None"]
    /\ ev_cache_results = <<>>
    /\ ev_uncached = <<>>
    /\ ev_sem = 0
    /\ ev_task = <<>>
    /\ ev_calls = [d \in DocIds |-> 0]
    /\ ev_error = ""
    /\ ev_result = <<>>

EvInit ==
    /\ relevance_cache = [k \in CacheKeys |-> "None"]
    /\ ev_unparsed = {}
    /\ EvIdle

\* lines 68-82 and the creation of the tasks on line 94
EvaluateCall(docs, query) ==
    /\ ev_pc = "idle"
    /\ ev_docs' = docs
    /\ ev_query' = query
    /\ ev_cache0' = relevance_cache
    /\ ev_calls' = [d \in DocIds |-> 0]
    /\ ev_error' = ""
    /\ LET cache_results == CacheResultsOf(docs, query, relevance_cache)
           uncached      == UncachedOf(docs, query, relevance_cache)
       IN  /\ ev_cache_results' = cache_results
           /\ ev_uncached' = uncached
           /\ IF uncached = <<>>
              THEN /\ ev_pc' = "returned"
                   /\ ev_result' = cache_results
                   /\ ev_sem' = 0
                   /\ ev_task' = <<>>
              ELSE /\ ev_pc' = "gather"
                   /\ ev_result' = <<>>
                   /\ ev_sem' = SemWidth
                   /\ ev_task' = [i \in 1..Len(uncached) |-> NoTask]
    /\ UNCHANGED <<relevance_cache, ev_unparsed>>
    /\ UNCHANGED nonEvVars

\* Tasks run in creation order and the semaphore wakes its waiters in order.
NextPending(i) ==
    /\ i \in 1..Len(ev_task)
    /\ ev_task[i].st = "pending"
    /\ \A j \in 1..(i - 1) : ev_task[j].st # "pending"

FirstError(e) == IF ev_error = "" THEN e ELSE ev_error

\* eval_one, lines 85-86, up to the await of llm.ainvoke (line 49): the task
\* takes the semaphore, renders the preview and issues the judgment call.
TaskIssueCall(i) ==
    /\ NextPending(i)
    /\ SemFree(ev_sem)
    /\ ev_sem' = ev_sem - 1
    /\ ev_task' = [ev_task EXCEPT ![i].st = "calling"]
    /\ ev_calls' = [ev_calls EXCEPT ![ev_uncached[i]] = @ + 1]
    /\ UNCHANGED <<relevance_cache, ev_unparsed, ev_pc, ev_docs, ev_query, ev_cache0,
                   ev_cache_results, ev_uncached, ev_error, ev_result>>
    /\ UNCHANGED nonEvVars

\* eval_one, lines 85-86 with line 18: batch_build_content raises (a table file
\* is missing); the exception leaves the "async with", which releases.
TaskRenderRaises(i) ==
    /\ NextPending(i)
    /\ SemFree(ev_sem)
    /\ ev_task' = [ev_task EXCEPT ![i].st = "failed", ![i].ret = "RenderError"]
    /\ ev_error' = FirstError("RenderError")
    /\ UNCHANGED <<relevance_cache, ev_unparsed, ev_pc, ev_docs, ev_query, ev_cache0,
                   ev_cache_results, ev_uncached, ev_sem, ev_calls, ev_result>>
    /\ UNCHANGED nonEvVars

\* eval_one, lines 86-93: the reply arrives, is parsed (lines 50-65), the
\* verdict is written to the cache and the semaphore is released.
TaskReply(i, response_text) ==
    /\ i \in 1..Len(ev_task)
    /\ ev_task[i].st = "calling"
    /\ LET relevant == ParseRelevance(response_text)
           key == get_cache_key(ev_uncached[i], ev_query)
       IN  /\ relevance_cache' = [relevance_cache EXCEPT ![key] = relevant]
           /\ ev_unparsed' = IF ParseFails(response_text)
                             THEN ev_unparsed \cup {key}
                             ELSE ev_unparsed \ {key}
           /\ ev_task' = [ev_task EXCEPT
                            ![i].st = "done",
                            ![i].v = relevant,
                            ![i].ret = IF relevant = "True" THEN "kept" ELSE "dropped"]
    /\ ev_sem' = ev_sem + 1
    /\ UNCHANGED <<ev_pc, ev_docs, ev_query, ev_cache0, ev_cache_results,
                   ev_uncached, ev_calls, ev_error, ev_result>>
    /\ UNCHANGED nonEvVars

\* line 49: llm.ainvoke raises; nothing in batch_relevance_check or eval_one
\* catches it.
TaskCallRaises(i) ==
    /\ i \in 1..Len(ev_task)
    /\ ev_task[i].st = "calling"
    /\ ev_task' = [ev_task EXCEPT ![i].st = "failed", ![i].ret = "LLMError"]
    /\ ev_error' = FirstError("LLMError")
    /\ ev_sem' = ev_sem + 1
    /\ UNCHANGED <<relevance_cache, ev_unparsed, ev_pc, ev_docs, ev_query, ev_cache0,
                   ev_cache_results, ev_uncached, ev_calls, ev_result>>
    /\ UNCHANGED nonEvVars

\* line 86: asyncio.wait_for(..., timeout=15) cancels the call and raises
\* TimeoutError in eval_one; there is no retry.
TaskTimeout(i) ==
    /\ i \in 1..Len(ev_task)
    /\ ev_task[i].st = "calling"
    /\ ev_task' = [ev_task EXCEPT ![i].st = "failed", ![i].ret = "TimeoutError"]
    /\ ev_error' = FirstError("TimeoutError")
    /\ ev_sem' = ev_sem + 1
    /\ UNCHANGED <<relevance_cache, ev_unparsed, ev_pc, ev_docs, ev_query, ev_cache0,
                   ev_cache_results, ev_uncached, ev_calls, ev_result>>
    /\ UNCHANGED nonEvVars

\* line 94: asyncio.gather without return_exceptions hands the first exception
\* of a task to the awaiting evaluate_relevance, which does not catch it; the
\* other tasks are not cancelled.
GatherRaises ==
    /\ ev_pc = "gather"
    /\ ev_error # ""
    /\ ev_pc' = "raised"
    /\ UNCHANGED <<relevance_cache, ev_unparsed, ev_docs, ev_query, ev_cache0, ev_cache_results,
                   ev_uncached, ev_sem, ev_task, ev_calls, ev_error, ev_result>>
    /\ UNCHANGED nonEvVars

\* lines 94-96: every task has returned
GatherReturns ==
    /\ ev_pc = "gather"
    /\ \A i \in 1..Len(ev_task) : ev_task[i].st = "done"
    /\ LET kept == {i \in 1..Len(ev_task) : ev_task[i].ret = "kept"}
           F[i \in 0..Len(ev_uncached)] ==
               IF i = 0 THEN <<>>
               ELSE IF i \in kept THEN Append(F[i - 1], ev_uncached[i]) ELSE F[i - 1]
       IN  ev_result' = ev_cache_results \o F[Len(ev_uncached)]
    /\ ev_pc' = "returned"
    /\ UNCHANGED <<relevance_cache, ev_unparsed, ev_docs, ev_query, ev_cache0, ev_cache_results,
                   ev_uncached, ev_sem, ev_task, ev_calls, ev_error>>
    /\ UNCHANGED nonEvVars

\* The next call of evaluate_relevance on the same cache, once the tasks of
\* the previous one have finished.
EvaluateNext ==
    /\ ev_pc \in {"returned", "raised"}
    /\ \A i \in 1..Len(ev_task) : ev_task[i].st \in {"done", "failed"}
    /\ ev_pc' = "idle"
    /\ ev_docs' = <<>>
    /\ ev_query' = "q"
    /\ ev_cache0' = [k \in CacheKeys |-> "None"]
    /\ ev_cache_results' = <<>>
    /\ ev_uncached' = <<>>
    /\ ev_sem' = 0
    /\ ev_task' = <<>>
    /\ ev_calls' = [d \in DocIds |-> 0]
    /\ ev_error' = ""
    /\ ev_result' = <<>>
    /\ UNCHANGED <<relevance_cache, ev_unparsed>>
    /\ UNCHANGED nonEvVars

----------------------------------------------------------------------------
(* The semaphore of evaluate_relevance under concurrent invocations: each   *)
(* invocation (a request thread with its own event loop) runs line 82 and   *)
(* so has a semaphore of its own. The tasks of one invocation are counted:  *)
(* waiting for the semaphore, judgment call in flight, finished.            *)

Invocations == {"r1", "r2"}

MaxUncached == 17

\* The numbers of uncached candidates an invocation may have in the model.
UncachedCounts == {SemWidth \div 2 + 1, MaxUncached}

SmNone == [n |-> 0, waiting |-> 0, calling |-> 0, done |-> 0, sem |-> 0]

SmIdle == sm = [r \in Invocations |-> SmNone]

\* lines 82 and 94: the semaphore is created, one task per uncached candidate
SemStart(r, n) ==
    /\ sm[r].n = 0
    /\ sm' = [sm EXCEPT ![r] = [n |-> n, waiting |-> n, calling |-> 0,
                                done |-> 0, sem |-> SemWidth]]
    /\ UNCHANGED nonSmVars

\* lines 85-86: a task enters "async with sem" and issues its judgment call
SemAcquire(r) ==
    /\ sm[r].waiting > 0
    /\ SemFree(sm[r].sem)
    /\ sm' = [sm EXCEPT ![r].waiting = @ - 1, ![r].calling = @ + 1, ![r].sem = @ - 1]
    /\ UNCHANGED nonSmVars

\* lines 86-93: the call ends (reply, timeout or exception); the task leaves
\* the "async with" block
SemRelease(r) ==
    /\ sm[r].calling > 0
    /\ sm' = [sm EXCEPT ![r].calling = @ - 1, ![r].done = @ + 1, ![r].sem = @ + 1]
    /\ UNCHANGED nonSmVars

\* lines 94-96: all tasks have finished, the invocation ends
SemFinish(r) ==
    /\ sm[r].n > 0
    /\ sm[r].done = sm[r].n
    /\ sm' = [sm EXCEPT ![r] = SmNone]
    /\ UNCHANGED nonSmVars

InFlight(r) == sm[r].calling

RECURSIVE SumOver(_, _)
SumOver(f, S) ==
    IF S = {} THEN 0
    ELSE LET x == CHOOSE y \in S : TRUE IN f[x] + SumOver(f, S \ {x})

TotalInFlight == SumOver([r \in Invocations |-> InFlight(r)], Invocations)

----------------------------------------------------------------------------
(* The store's items (Document.metadata) of the model.  "" stands for an    *)
(* absent member.  pair and pairs are metadata values of any kind: absent,  *)
(* a list, or a str that ast.literal_eval parses to a list or rejects.      *)

Absent     == [kind |-> "absent", ok |-> TRUE,  v |-> <<>>]
ListVal(v) == [kind |-> "list",   ok |-> TRUE,  v |-> v]
StrVal(v)  == [kind |-> "str",    ok |-> TRUE,  v |-> v]
BadStr     == [kind |-> "str",    ok |-> FALSE, v |-> <<>>]

\* bool(value): a non-empty str or a non-empty list
Truthy(x) == x.kind = "str" \/ (x.kind = "list" /\ x.v # <<>>)

\* An element of a list that is not a str (the int 123); it is truthy.
NotStr == "<123>"

Item(id, type, year, csv_path, image_path, caption, pair, pairs) ==
    [id |-> id, type |-> type, year |-> year, csv_path |-> csv_path,
     image_path |-> image_path, caption |-> caption, pair |-> pair, pairs |-> pairs]

ItemText   == Item("t1", "text", "SARJANA", "", "", "", Absent, Absent)
ItemStaff  == Item("s1", "tendik", "GENERAL", "staff.csv", "", "Kepala Laboratorium",
                   ListVal(<<"img/budi.png", "Dr. Budi">>), Absent)
ItemRow1   == Item("r1", "table_row", "SARJANA", "tab.csv", "", "Tabel Dosen", Absent, Absent)
ItemRow2   == Item("r2", "table_row", "SARJANA", "tab.csv", "", "Tabel Dosen", Absent, Absent)
ItemImage  == Item("i1", "image", "GENERAL", "", "img/gedung.png", "Gedung DTMI",
                   Absent, Absent)
ItemNoFile == Item("c1", "table_caption", "MAGISTER", "gone.csv", "", "Tabel Hilang",
                   Absent, Absent)
ItemNoId   == Item("", "text", "GENERAL", "", "", "", Absent, Absent)
ItemBadStaff == Item("s2", "tendik", "GENERAL", "", "", "",
                     StrVal(<<"img/ani.png", NotStr>>), Absent)

StoreItems == {ItemText, ItemStaff, ItemRow1, ItemRow2, ItemImage, ItemNoFile, ItemNoId,
               ItemBadStaff}

\* os.path.join(static_dir, p) for a relative p
StaticJoin(p) == [root |-> "static", rel |-> p]

\* csv_handler.resolve_csv_path, lines 11-14, for a relative p
resolve_csv_path(p) == StaticJoin(p)

\* The table files that exist under the static root.
FilesPresent == {StaticJoin("staff.csv"), StaticJoin("tab.csv")}

\* The store's evaluation of a predicate on an item.
ClauseHolds(clause, item) ==
    IF clause.field = "type"
    THEN item.type \in AdmittedTypes(clause)
    ELSE item.year \in Range(clause.vals)

Matches(where, item) == \A i \in 1..Len(where.and) : ClauseHolds(where.and[i], item)

----------------------------------------------------------------------------
(* vector_search.py *)

\* similarity_search.run with the try of lines 13-18 not tolerating a failed probe
SimilaritySearchProbeFatal(probe, store_hits) ==
    IF probe \in {"zero", "raises"}
    THEN [hits |-> <<>>, sim_called |-> FALSE]
    ELSE [hits |-> store_hits, sim_called |-> TRUE]

\* similarity_search.run, lines 12-19.  probe is what col.count(where=...)
\* does: "zero", "nonzero", "absent" (no count attribute) or "raises";
\* store_hits is what similarity_search_with_score would return.
similarity_search(probe, store_hits) ==
    IF probe = "zero"
    THEN [hits |-> <<>>, sim_called |-> FALSE]
    ELSE [hits |-> store_hits, sim_called |-> TRUE]

Probes == {"zero", "nonzero", "absent", "raises"}

\* group_by_modality, lines 23-28: the types in order of first occurrence
RECURSIVE GroupKeys(_)
GroupKeys(hits) ==
    IF hits = <<>> THEN <<>>
    ELSE LET front == GroupKeys(SubSeq(hits, 1, Len(hits) - 1))
             t     == hits[Len(hits)].type
         IN  IF t \in Range(front) THEN front ELSE Append(front, t)

GroupOf(hits, t) == SelectSeq(hits, LAMBDA d : d.type = t)

----------------------------------------------------------------------------
(* context_expansion.batch_expand_text, lines 39-51: one item per id, items *)
(* without an id dropped (the stitched text is not part of this model)      *)

\* lines 43-49 with the items lacking an id kept
RECURSIVE DedupByIdKeepsNoId(_)
DedupByIdKeepsNoId(docs) ==
    IF docs = <<>> THEN <<>>
    ELSE LET front == DedupByIdKeepsNoId(SubSeq(docs, 1, Len(docs) - 1))
             d     == docs[Len(docs)]
         IN  IF d.id = "" \/ d.id \notin {front[i].id : i \in 1..Len(front)}
             THEN Append(front, d)
             ELSE front

RECURSIVE DedupById(_)
DedupById(docs) ==
    IF docs = <<>> THEN <<>>
    ELSE LET front == DedupById(SubSeq(docs, 1, Len(docs) - 1))
             d     == docs[Len(docs)]
         IN  IF d.id # "" /\ d.id \notin {front[i].id : i \in 1..Len(front)}
             THEN Append(front, d)
             ELSE front

\* __init__.py line 24 / 61: the window in force (default 5)
ContextExpansionWindow == 5

batch_expand_text(docs) ==
    IF ContextExpansionWindow <= 1 THEN docs ELSE DedupById(docs)

RECURSIVE ConcatGroups(_, _)
ConcatGroups(keys, hits) ==
    IF keys = <<>> THEN <<>>
    ELSE (IF Head(keys) # Filter.TEXT THEN GroupOf(hits, Head(keys)) ELSE <<>>)
         \o ConcatGroups(Tail(keys), hits)

\* __init__.py lines 72-79: expanded text items, then the other groups
AllDocsOf(hits) ==
    (IF Filter.TEXT \in Range(GroupKeys(hits))
     THEN batch_expand_text(GroupOf(hits, Filter.TEXT)) ELSE <<>>)
    \o ConcatGroups(GroupKeys(hits), hits)

----------------------------------------------------------------------------
(* csv_handler.py and content_builder.py *)

\* batch_load_csv line 27: the csv paths of the items
CsvPathsOf(docs) == {docs[i].csv_path : i \in 1..Len(docs)} \ {""}

\* load_csv_md_cached with a missing file rendered as empty text
CsvLoadSwallows(resolved, cache) == FALSE

\* load_csv_md_cached, lines 17-23: the load of a resolved path raises iff it
\* is not cached and csv_to_markdown finds no file (utils.py lines 29-31).
CsvLoadRaises(resolved, cache) == resolved \notin cache /\ resolved \notin FilesPresent

BatchLoadRaises(docs, cache) ==
    \E p \in CsvPathsOf(docs) : CsvLoadRaises(resolve_csv_path(p), cache)

\* The resolved paths a batch would add to the cache (line 22).
BatchLoadable(docs, cache) ==
    {resolve_csv_path(p) : p \in CsvPathsOf(docs)} \cap FilesPresent

\* content_builder.one, lines 13-79: the rendered content of an item: whose
\* it is, whether the table is the full dump or the 200-character preview,
\* and the table file dumped; ws is the whitespace as rendered.
ContentOf(doc, include_full_table) ==
    [of |-> doc.id,
     label |-> CASE doc.type = Filter.TEXT    -> "text"
                 [] doc.type = Filter.TENDIK  ->
                       (IF Truthy(doc.pairs) THEN "Table Caption"
                        ELSE IF Truthy(doc.pair) \/ doc.csv_path # "" THEN "Staff Data"
                        ELSE "text")
                 [] doc.type = Filter.ROW_TAB -> (IF doc.csv_path # "" THEN "Table" ELSE "text")
                 [] doc.type = Filter.IMAGE   -> "Konten Mengandung gambar"
                 [] doc.type = Filter.CAP_TAB -> "Table Caption"
                 [] OTHER                     -> "text",
     table |-> IF doc.type \in {Filter.TENDIK, Filter.ROW_TAB, Filter.CAP_TAB}
               THEN doc.csv_path ELSE "",
     full |-> include_full_table,
     ws |-> "raw"]

\* batch_build_content rendering the full table whatever the mode asked for
BuildContentAlwaysFull(docs, include_full_table) ==
    [i \in 1..Len(docs) |-> ContentOf(docs[i], TRUE)]

\* batch_build_content, lines 10-81, when the loads succeed
batch_build_content(docs, include_full_table) ==
    [i \in 1..Len(docs) |-> ContentOf(docs[i], include_full_table)]

----------------------------------------------------------------------------
(* relevance_evaluator.py (batched): batch_relevance_check, filter_docs_by_ids *)

\* '"ids": [...]' and an "ids" member that is not a list of int
IdsObj(ids) == [t |-> "obj", is_relevant |-> "absent", ids_kind |-> "list", ids |-> ids]
BadIdsObj   == [t |-> "obj", is_relevant |-> "absent", ids_kind |-> "bad", ids |-> <<>>]

\* lines 113-115: the fence markers are removed
StripFences(text) == SelectSeq(text, LAMBDA t : t # FENCE)

\* lines 139-143 with a fallback that keeps nothing
BatchFallbackNone(n) == <<>>

\* lines 139-143: all_ids = list(range(1, len(docs_with_content) + 1))
BatchFallbackIds(n) == [i \in 1..n |-> i]

\* format_document_with_tag, lines 12-39, for the candidates numbered from 1
\* (lines 61-64)
FormatDocs(docs, contents) ==
    [i \in 1..Len(docs) |-> [tag |-> i, type |-> docs[i].type, content |-> contents[i]]]

\* the messages of the call with one message per candidate
PromptPerItem(docs, contents) ==
    [i \in 1..Len(docs) |-> [role |-> "user", docs |-> <<FormatDocs(docs, contents)[i]>>]]

\* lines 66-105: the list of messages given to llm.ainvoke
Prompt(docs, contents) == <<[role |-> "user", docs |-> FormatDocs(docs, contents)]>>

\* lines 103-143.  outcome.raises: llm.ainvoke raised; else outcome.text is
\* the reply.  The except clause catches the failed call, the missing match,
\* the JSONDecodeError and the ValidationError of BatchRelevanceResponse.
batch_relevance_check(n, outcome) ==
    LET fallback == [ids |-> BatchFallbackIds(n), rationale |-> "Error in evaluation"]
        span     == JsonMatch(StripFences(outcome.text))
    IN  IF outcome.raises THEN fallback
        ELSE IF span = <<>> \/ ~JsonDecodes(span) THEN fallback
        ELSE IF span[2].ids_kind = "bad" THEN fallback
        ELSE [ids |-> span[2].ids, rationale |-> "judge"]

\* lines 160-172 with the loop running over the ids instead of the batch
FilterInIdsOrder(docs, ids) ==
    LET inside == SelectSeq(ids, LAMBDA i : i \in 1..Len(docs))
    IN  [k \in 1..Len(inside) |-> docs[inside[k]]]

\* lines 160-172 returning the whole batch when no ordinal selects a candidate
FilterAllIfNoneKept(docs, ids) ==
    LET keep == {i \in 1..Len(docs) : i \in Range(ids)}
        F[i \in 0..Len(docs)] ==
            IF i = 0 THEN <<>>
            ELSE IF i \in keep THEN Append(F[i - 1], docs[i]) ELSE F[i - 1]
    IN  IF keep = {} THEN docs ELSE F[Len(docs)]

\* lines 160-172
filter_docs_by_ids(docs, ids) ==
    IF ids = <<>> THEN <<>>
    ELSE LET keep == {i \in 1..Len(docs) : i \in Range(ids)}
             F[i \in 0..Len(docs)] ==
                 IF i = 0 THEN <<>>
                 ELSE IF i \in keep THEN Append(F[i - 1], docs[i]) ELSE F[i - 1]
         IN  F[Len(docs)]

\* The outcomes of the judgment call in the model, for n candidates.
IdLists(n) == SeqsUpTo(0..(n + 1), 2) \cup {[i \in 1..n |-> i]}

UndecodableTexts == { <<>>, <<TXT>>, <<LB, TXT, RB>>, <<LB, IdsObj(<<1>>)>>, <<RB, TXT, LB>> }

BatchOutcomes(n) ==
    {[raises |-> TRUE, text |-> <<>>]}
    \cup {[raises |-> FALSE, text |-> <<LB, IdsObj(ids), RB>>] : ids \in IdLists(n)}
    \cup {[raises |-> FALSE, text |-> t] : t \in UndecodableTexts}
    \cup {[raises |-> FALSE, text |-> t] :
            t \in { <<FENCE, LB, IdsObj(<<1>>), RB, FENCE>>,
                    <<TXT, LB, IdsObj(<<1>>), RB, TXT>>,
                    <<LB, RelObj("true"), RB>>,
                    <<LB, BadIdsObj, RB>> }}

----------------------------------------------------------------------------
(* deduplicator.batch_deduplicate *)

\* normalize_caption, lines 16-22, on the captions and names of the model:
\* lower case, punctuation removed, tokens sorted
normalize_caption(caption) ==
    CASE caption = "Kepala Laboratorium" -> "kepala laboratorium"
      [] caption = "Tabel Dosen"         -> "dosen tabel"
      [] caption = "Gedung DTMI"         -> "dtmi gedung"
      [] caption = "Tabel Hilang"        -> "hilang tabel"
      [] caption = "Dr. Budi"            -> "budi dr"
      [] caption = "Budi, Dr."           -> "budi dr"
      [] OTHER                           -> caption

\* line 27: ' '.join(content.split())
NormalizeContent(content) == [content EXCEPT !.ws = "single"]

\* dict[key] = val on an insertion-ordered dict kept as a list of entries
DictSet(dict, key, val) ==
    IF \E i \in 1..Len(dict) : dict[i].path = key
    THEN [i \in 1..Len(dict) |->
             IF dict[i].path = key THEN [path |-> key, caption |-> val] ELSE dict[i]]
    ELSE Append(dict, [path |-> key, caption |-> val])

DedupStart ==
    [texts |-> <<>>, metadatas |-> <<>>, image_dict |-> <<>>, csv_dict |-> <<>>,
     used_ids |-> {}, used_contents |-> {}, used_img |-> {}, used_csv |-> {},
     error |-> ""]

\* lines 40-51 with the captions compared as written, not normalized
DedupCaptionAsWritten(acc, meta) ==
    LET a1 == IF meta.caption # "" /\ meta.image_path # ""
                 /\ meta.caption \notin {acc.image_dict[i].caption : i \in 1..Len(acc.image_dict)}
              THEN [acc EXCEPT !.image_dict = DictSet(@, meta.image_path, meta.caption),
                               !.used_img = @ \cup {normalize_caption(meta.caption)}]
              ELSE acc
    IN  IF meta.caption # "" /\ meta.csv_path # ""
           /\ meta.caption \notin {a1.csv_dict[i].caption : i \in 1..Len(a1.csv_dict)}
        THEN [a1 EXCEPT !.csv_dict = DictSet(@, meta.csv_path, meta.caption),
                        !.used_csv = @ \cup {normalize_caption(meta.caption)}]
        ELSE a1

\* lines 40-51: the item's own caption
DedupCaption(acc, meta) ==
    LET nc == normalize_caption(meta.caption)
        a1 == IF meta.caption # "" /\ nc # "" /\ meta.image_path # "" /\ nc \notin acc.used_img
              THEN [acc EXCEPT !.image_dict = DictSet(@, meta.image_path, meta.caption),
                               !.used_img = @ \cup {nc}]
              ELSE acc
    IN  IF meta.caption # "" /\ nc # "" /\ meta.csv_path # "" /\ nc \notin a1.used_csv
        THEN [a1 EXCEPT !.csv_dict = DictSet(@, meta.csv_path, meta.caption),
                        !.used_csv = @ \cup {nc}]
        ELSE a1

\* lines 65-69 and 89-93: one (image_path, person_name); the call
\* person_name.lower() of normalize_caption raises AttributeError when the
\* name is not a str, and the except clauses (ValueError, TypeError,
\* SyntaxError) do not catch it
DedupPerson(acc, img_path, person_name) ==
    IF img_path = "" \/ person_name = "" THEN acc
    ELSE IF person_name = NotStr THEN [acc EXCEPT !.error = "AttributeError"]
    ELSE LET pn == normalize_caption(person_name)
         IN  IF pn # "" /\ pn \notin acc.used_img
             THEN [acc EXCEPT !.image_dict = DictSet(@, img_path, person_name),
                              !.used_img = @ \cup {pn}]
             ELSE acc

\* lines 55-73: the pair member
DedupPair(acc, pair) ==
    IF ~Truthy(pair) THEN acc
    ELSE IF pair.kind = "str" /\ ~pair.ok THEN acc
    ELSE IF Len(pair.v) = 2 THEN DedupPerson(acc, pair.v[1], pair.v[2])
    ELSE acc

\* lines 85-95: the loop over the items of pairs
RECURSIVE DedupPersons(_, _)
DedupPersons(acc, items) ==
    IF items = <<>> \/ acc.error # "" THEN acc
    ELSE DedupPersons(
            IF Len(Head(items)) >= 2
            THEN DedupPerson(acc, Head(items)[1], Head(items)[2]) ELSE acc,
            Tail(items))

\* lines 75-99: the pairs member
DedupPairs(acc, pairs) ==
    IF acc.error # "" \/ ~Truthy(pairs) THEN acc
    ELSE IF pairs.kind = "str" /\ ~pairs.ok THEN acc
    ELSE DedupPersons(acc, pairs.v)

\* lines 24-99 with the id and the content of a skipped item recorded as well
DedupStepTracksSkipped(acc, meta, content) ==
    LET nc == NormalizeContent(content)
        seen == [acc EXCEPT
                   !.used_ids = IF meta.id # "" THEN @ \cup {meta.id} ELSE @,
                   !.used_contents = @ \cup {nc}]
    IN  IF nc \in acc.used_contents \/ (meta.id # "" /\ meta.id \in acc.used_ids)
        THEN seen
        ELSE LET a1 == [seen EXCEPT
                          !.texts = Append(@, [prefix |-> meta.id, content |-> content]),
                          !.metadatas = Append(@, meta)]
                 a2 == DedupCaption(a1, meta)
             IN  IF meta.type = Filter.TENDIK
                 THEN DedupPairs(DedupPair(a2, meta.pair), meta.pairs)
                 ELSE a2

\* lines 24-99: the body of the loop for one (doc, content)
DedupStep(acc, meta, content) ==
    LET nc == NormalizeContent(content)
    IN  IF nc \in acc.used_contents \/ (meta.id # "" /\ meta.id \in acc.used_ids)
        THEN acc
        ELSE LET a1 == [acc EXCEPT
                          !.used_ids = IF meta.id # "" THEN @ \cup {meta.id} ELSE @,
                          !.used_contents = @ \cup {nc},
                          !.texts = Append(@, [prefix |-> meta.id, content |-> content]),
                          !.metadatas = Append(@, meta)]
                 a2 == DedupCaption(a1, meta)
             IN  IF meta.type = Filter.TENDIK
                 THEN DedupPairs(DedupPair(a2, meta.pair), meta.pairs)
                 ELSE a2

RECURSIVE DedupLoop(_, _, _)
DedupLoop(acc, docs, contents) ==
    IF docs = <<>> \/ acc.error # "" THEN acc
    ELSE DedupLoop(DedupStep(acc, Head(docs), Head(contents)), Tail(docs), Tail(contents))

\* lines 9-103; error names the exception that left the function, if any
batch_deduplicate(docs, contents) == DedupLoop(DedupStart, docs, contents)

----------------------------------------------------------------------------
(* FilterService.get_rag (batched flow), one action per await *)

MaxHits == 2

\* The modalities and years a request is made with in the model.
RagModalities == {ModStr("all"), ModStr("table"), ModList(<<"image", "table">>)}
RagYears      == {YearNone, YearStr("SARJANA")}

\* What the store can return for a predicate: up to top_k distinct matching
\* items, in the store's order.
StoreHits(where) ==
    {h \in SeqsUpTo({it \in StoreItems : Matches(where, it)}, MaxHits) :
        \A i, j \in 1..Len(h) : i # j => h[i] # h[j]}

\* lines 113-118 with the id as the key of every item
RECURSIVE FirstDedupById(_)
FirstDedupById(docs) ==
    IF docs = <<>> THEN <<>>
    ELSE LET front == FirstDedupById(SubSeq(docs, 1, Len(docs) - 1))
             d     == docs[Len(docs)]
         IN  IF d.id \in {front[i].id : i \in 1..Len(front)}
             THEN front ELSE Append(front, d)

\* __init__.py lines 113-118: first occurrence per csv_path, else per id
RECURSIVE FirstDedup(_)
FirstDedup(docs) ==
    IF docs = <<>> THEN <<>>
    ELSE LET front  == FirstDedup(SubSeq(docs, 1, Len(docs) - 1))
             KeyOf(d) == IF d.csv_path # "" THEN d.csv_path ELSE d.id
             d      == docs[Len(docs)]
         IN  IF KeyOf(d) \in {KeyOf(front[i]) : i \in 1..Len(front)}
             THEN front ELSE Append(front, d)

NoVerdict == [ids |-> <<>>, rationale |-> ""]
NoReply   == [raises |-> FALSE, text |-> <<>>]
NoCalls   == [sim |-> 0, judge |-> 0, render |-> 0]
NoSearch  == [probe |-> "", store |-> <<>>]

\* The dict get_rag returns; filter_message "" while nothing is returned.
Bundle(context, image_paths, csv_paths, metadatas, filter_message) ==
    [context |-> context, image_paths |-> image_paths, csv_paths |-> csv_paths,
     metadatas |-> metadatas, filter_message |-> filter_message]

NoBundle == Bundle(<<>>, <<>>, <<>>, <<>>, "")

\* lines 102-110
EmptyBundle == Bundle(<<>>, <<>>, <<>>, <<>>, "No relevant documents found")

\* lines 123-127
DedupOf(docs) == batch_deduplicate(docs, batch_build_content(docs, TRUE))

\* lines 122-141 run on every candidate instead of the filtered ones
FullBundleOfAllDocs(docs) ==
    LET r == DedupOf(rg_all_docs)
        Joined(dict) == [i \in 1..Len(dict) |->
                            [path |-> StaticJoin(dict[i].path), caption |-> dict[i].caption]]
    IN  Bundle(r.texts, Joined(r.image_dict), Joined(r.csv_dict), r.metadatas,
               "Batch relevance")

\* lines 127-141
FullBundle(docs) ==
    LET r == DedupOf(docs)
        Joined(dict) == [i \in 1..Len(dict) |->
                            [path |-> StaticJoin(dict[i].path), caption |-> dict[i].caption]]
    IN  Bundle(r.texts, Joined(r.image_dict), Joined(r.csv_dict), r.metadatas,
               "Batch relevance")

RgInit ==
    /\ rg_pc = "IDLE"
    /\ rg_args = [query_types |-> ModNone, year |-> YearNone]
    /\ rg_where = [and |-> <<>>]
    /\ rg_hits = <<>>
    /\ rg_search = NoSearch
    /\ rg_all_docs = <<>>
    /\ rg_preview = <<>>
    /\ rg_sent = <<>>
    /\ rg_reply = NoReply
    /\ rg_verdict = NoVerdict
    /\ rg_relevant = <<>>
    /\ rg_deduped = <<>>
    /\ rg_bundle = NoBundle
    /\ rg_error = ""
    /\ rg_calls = NoCalls
    /\ csv_cache = {}

RgTerminal == {"DONE", "EMPTY", "RAISED"}

\* lines 60-66: a request enters; the service's caches are kept
GetRagCall(query_types, year) ==
    /\ rg_pc \in {"IDLE"} \cup RgTerminal
    /\ rg_pc' = "SEARCH"
    /\ rg_args' = [query_types |-> query_types, year |-> year]
    /\ rg_where' = build_filter(query_types, year).where
    /\ rg_hits' = <<>>
    /\ rg_search' = NoSearch
    /\ rg_all_docs' = <<>>
    /\ rg_preview' = <<>>
    /\ rg_sent' = <<>>
    /\ rg_reply' = NoReply
    /\ rg_verdict' = NoVerdict
    /\ rg_relevant' = <<>>
    /\ rg_deduped' = <<>>
    /\ rg_bundle' = NoBundle
    /\ rg_error' = ""
    /\ rg_calls' = NoCalls
    /\ UNCHANGED csv_cache
    /\ UNCHANGED nonRgVars

\* lines 66-70: similarity_search returns
SearchReturns(probe, store_hits) ==
    /\ rg_pc = "SEARCH"
    /\ LET r == similarity_search(probe, store_hits)
       IN  /\ rg_hits' = r.hits
           /\ rg_search' = [probe |-> probe, store |-> store_hits]
           /\ rg_calls' = [rg_calls EXCEPT !.sim = IF r.sim_called THEN @ + 1 ELSE @]
           /\ IF r.hits = <<>>
              THEN /\ rg_pc' = "RAISED"
                   /\ rg_error' = "ValueError: RAG ERROR: No hits found"
              ELSE /\ rg_pc' = "EXPAND"
                   /\ rg_error' = ""
    /\ UNCHANGED <<rg_args, rg_where, rg_all_docs, rg_preview, rg_sent, rg_reply, rg_verdict,
                   rg_relevant, rg_deduped, rg_bundle, csv_cache>>
    /\ UNCHANGED nonRgVars

\* line 66: the existence probe did not report zero and the store's
\* similarity call raises (store unreachable)
SearchRaises(probe) ==
    /\ rg_pc = "SEARCH"
    /\ probe # "zero"
    /\ rg_search' = [probe |-> probe, store |-> <<>>]
    /\ rg_pc' = "RAISED"
    /\ rg_error' = "StoreError"
    /\ rg_calls' = [rg_calls EXCEPT !.sim = @ + 1]
    /\ UNCHANGED <<rg_args, rg_where, rg_hits, rg_all_docs, rg_preview, rg_sent, rg_reply,
                   rg_verdict, rg_relevant, rg_deduped, rg_bundle, csv_cache>>
    /\ UNCHANGED nonRgVars

\* lines 70-82: grouping and expansion
ExpandReturns ==
    /\ rg_pc = "EXPAND"
    /\ rg_all_docs' = AllDocsOf(rg_hits)
    /\ rg_search' = NoSearch
    /\ IF AllDocsOf(rg_hits) = <<>>
       THEN /\ rg_pc' = "RAISED"
            /\ rg_error' = "ValueError: No documents after expansion"
       ELSE /\ rg_pc' = "RENDER_PREVIEW"
            /\ rg_error' = ""
    /\ UNCHANGED <<rg_args, rg_where, rg_hits, rg_preview, rg_sent, rg_reply, rg_verdict,
                   rg_relevant, rg_deduped, rg_bundle, rg_calls, csv_cache>>
    /\ UNCHANGED nonRgVars

\* lines 84-86: the preview rendering returns
PreviewReturns ==
    /\ rg_pc = "RENDER_PREVIEW"
    /\ ~BatchLoadRaises(rg_all_docs, csv_cache)
    /\ rg_pc' = "EVALUATE"
    /\ rg_preview' = batch_build_content(rg_all_docs, FALSE)
    /\ csv_cache' = csv_cache \cup BatchLoadable(rg_all_docs, csv_cache)
    /\ rg_calls' = [rg_calls EXCEPT !.render = @ + 1]
    /\ UNCHANGED <<rg_args, rg_where, rg_hits, rg_search, rg_all_docs, rg_sent, rg_reply, rg_verdict,
                   rg_relevant, rg_deduped, rg_bundle, rg_error>>
    /\ UNCHANGED nonRgVars

\* line 85: a table file of the batch is missing; the loads of the other
\* files of the batch run to their end in the thread pool
PreviewRaises ==
    /\ rg_pc = "RENDER_PREVIEW"
    /\ BatchLoadRaises(rg_all_docs, csv_cache)
    /\ rg_pc' = "RAISED"
    /\ rg_error' = "ValueError: CSV file not found"
    /\ csv_cache' = csv_cache \cup BatchLoadable(rg_all_docs, csv_cache)
    /\ rg_calls' = [rg_calls EXCEPT !.render = @ + 1]
    /\ UNCHANGED <<rg_args, rg_where, rg_hits, rg_search, rg_all_docs, rg_preview, rg_sent, rg_reply,
                   rg_verdict, rg_relevant, rg_deduped, rg_bundle>>
    /\ UNCHANGED nonRgVars

\* lines 89-118: the judgment returns; filtering and the first dedup
EvaluateReturns(outcome) ==
    /\ rg_pc = "EVALUATE"
    /\ LET verdict  == batch_relevance_check(Len(rg_preview), outcome)
           relevant == filter_docs_by_ids(rg_all_docs, verdict.ids)
       IN  /\ rg_sent' = Append(rg_sent, Prompt(rg_all_docs, rg_preview))
           /\ rg_reply' = outcome
           /\ rg_verdict' = verdict
           /\ rg_relevant' = relevant
           /\ IF relevant = <<>>
              THEN /\ rg_pc' = "EMPTY"
                   /\ rg_bundle' = EmptyBundle
                   /\ rg_deduped' = <<>>
              ELSE /\ rg_pc' = "RENDER_FULL"
                   /\ rg_bundle' = NoBundle
                   /\ rg_deduped' = FirstDedup(relevant)
    /\ rg_calls' = [rg_calls EXCEPT !.judge = @ + 1]
    /\ UNCHANGED <<rg_args, rg_where, rg_hits, rg_search, rg_all_docs, rg_preview, rg_error,
                   csv_cache>>
    /\ UNCHANGED nonRgVars

\* lines 122-141: full rendering, final deduplication, the bundle
RenderFullReturns ==
    /\ rg_pc = "RENDER_FULL"
    /\ ~BatchLoadRaises(rg_deduped, csv_cache)
    /\ DedupOf(rg_deduped).error = ""
    /\ rg_pc' = "DONE"
    /\ rg_bundle' = FullBundle(rg_deduped)
    /\ csv_cache' = csv_cache \cup BatchLoadable(rg_deduped, csv_cache)
    /\ rg_calls' = [rg_calls EXCEPT !.render = @ + 1]
    /\ UNCHANGED <<rg_args, rg_where, rg_hits, rg_search, rg_all_docs, rg_preview, rg_sent, rg_reply,
                   rg_verdict, rg_relevant, rg_deduped, rg_error>>
    /\ UNCHANGED nonRgVars

\* line 127: an exception leaves batch_deduplicate and, uncaught, get_rag
DedupRaises ==
    /\ rg_pc = "RENDER_FULL"
    /\ ~BatchLoadRaises(rg_deduped, csv_cache)
    /\ DedupOf(rg_deduped).error # ""
    /\ rg_pc' = "RAISED"
    /\ rg_error' = DedupOf(rg_deduped).error
    /\ csv_cache' = csv_cache \cup BatchLoadable(rg_deduped, csv_cache)
    /\ rg_calls' = [rg_calls EXCEPT !.render = @ + 1]
    /\ UNCHANGED <<rg_args, rg_where, rg_hits, rg_search, rg_all_docs, rg_preview, rg_sent, rg_reply,
                   rg_verdict, rg_relevant, rg_deduped, rg_bundle>>
    /\ UNCHANGED nonRgVars

----------------------------------------------------------------------------
(* context_expansion.expand_one, lines 18-30: the chunk window of a text hit *)

Min(a, b) == IF a <= b THEN a ELSE b

Max(a, b) == IF a >= b THEN a ELSE b

\* lines 22-29 with a shift at the end of the section that keeps only the
\* first half of the shifted window
ExpandWindowShiftTruncates(idx, total, w) ==
    LET half   == w \div 2
        start0 == Max(0, idx - half)
        end0   == Min(total, idx + half + 1)
    IN  IF (end0 - start0) < w
        THEN IF start0 = 0
             THEN [start |-> 0, end |-> Min(total, w)]
             ELSE IF end0 = total
                  THEN [start |-> Max(0, total - w), end |-> Max(0, total - w) + half]
                  ELSE [start |-> start0, end |-> end0]
        ELSE [start |-> start0, end |-> end0]

\* lines 22-29: [start, end) for chunk idx of a section of total chunks
ExpandWindow(idx, total, w) ==
    LET half   == w \div 2
        start0 == Max(0, idx - half)
        end0   == Min(total, idx + half + 1)
    IN  IF (end0 - start0) < w
        THEN IF start0 = 0
             THEN [start |-> 0, end |-> Min(total, w)]
             ELSE IF end0 = total
                  THEN [start |-> Max(0, total - w), end |-> end0]
                  ELSE [start |-> start0, end |-> end0]
        ELSE [start |-> start0, end |-> end0]

MaxTotal == 10

MaxWindow == 6

\* A text hit (chunk_index, total_chunks_in_section) and a window size in
\* force; batch_expand_text returns before expand_one when the window is <= 1.
WindowInputs ==
    {x \in [idx : 0..(MaxTotal - 1), total : 1..MaxTotal, w : 2..MaxWindow] :
        x.idx < x.total}

WindowInit ==
    /\ px_in \in WindowInputs
    /\ px_out = <<>>
    /\ px_done = FALSE

ExpandOneWindow ==
    /\ ~px_done
    /\ px_out' = ExpandWindow(px_in.idx, px_in.total, px_in.w)
    /\ px_done' = TRUE
    /\ UNCHANGED px_in
    /\ UNCHANGED nonPxVars

----------------------------------------------------------------------------
(* batch_deduplicate applied to a batch of (doc, content) on its own *)

MaxBatch == 3

\* A rendered content: the text body and its whitespace as rendered.
Txt(body, ws) == [of |-> body, label |-> "text", table |-> "", full |-> TRUE, ws |-> ws]

\* Two renderings of the same words with different whitespace, and another text.
DedupContents == {Txt("A", "raw"), Txt("A", "single"), Txt("B", "single")}

\* A text item with the given id ("": no id).
PlainItem(id) == Item(id, Filter.TEXT, "GENERAL", "", "", "", Absent, Absent)

PlainItems == {PlainItem(id) : id \in {"", "x", "y"}}

\* Batches of text items.
PlainBatches ==
    UNION {[docs : [1..n -> PlainItems], contents : [1..n -> DedupContents]] :
             n \in 0..MaxBatch}

\* Staff items with a caption, an image, a table and a person: two of the
\* captions are the same words written differently.
CaptionItems ==
    {Item("", Filter.TENDIK, "GENERAL", csv, img, cap, pair, Absent) :
        csv \in {"", "t1.csv", "t2.csv"}, img \in {"img/a.png", "img/b.png"},
        cap \in {"Dr. Budi", "Budi, Dr.", "Gedung DTMI"},
        pair \in {Absent, ListVal(<<"img/c.png", "Dr. Budi">>)}}

BatchIds == <<"x", "y", "z", "w">>

\* Batches of captioned items with ids and contents of their own, so that
\* none is skipped.
CaptionBatches(n) ==
    {[docs |-> [i \in 1..n |-> [f[i] EXCEPT !.id = BatchIds[i]]],
      contents |-> [i \in 1..n |-> Txt(BatchIds[i], "raw")]] :
        f \in [1..n -> CaptionItems]}

DedupInit ==
    /\ \/ px_in \in PlainBatches
       \/ \E n \in 1..(MaxBatch - 1) : px_in \in CaptionBatches(n)
    /\ px_out = <<>>
    /\ px_done = FALSE

BatchDeduplicateCall ==
    /\ ~px_done
    /\ px_out' = batch_deduplicate(px_in.docs, px_in.contents)
    /\ px_done' = TRUE
    /\ UNCHANGED px_in
    /\ UNCHANGED nonPxVars

----------------------------------------------------------------------------
(* utils._deduplicate_and_join_text and _merge_with_overlap_detection.  A   *)
(* text is the sequence of its tokens (the encoding is lossless, so two     *)
(* texts are equal iff their token sequences are); SP stands for the        *)
(* tokens of a " " put between two texts.                                   *)

ChunkStride == 10

MaxRun == 21

SP == 0

Suffix(s, k) == SubSeq(s, Len(s) - k + 1, Len(s))

Prefix(s, k) == SubSeq(s, 1, k)

\* lines 125-139: the number of tokens of text1 that the word spanning the
\* boundary replaces, 0 if none is found (every token is taken to decode to
\* two characters or more, so that len(partial_text) >= 4)
PartialWord(t1, t2) ==
    LET found == {i \in 1..(Min(5, Min(Len(t1), Len(t2))) - 1) :
                     \E j \in 1..(Min(10, Len(t2)) - 1) :
                         /\ i + j <= Len(t2)
                         /\ Suffix(t1, i) \o Prefix(t2, j) = Prefix(t2, i + j)}
    IN  IF Len(t1) >= 2 /\ Len(t2) >= 2 /\ found # {}
        THEN CHOOSE i \in found : \A k \in found : i <= k
        ELSE 0

\* the loop of lines 112-118 run upwards from 2
ExactOverlapSmallest(tokens1, tokens2) ==
    LET max_check == Min(Min(Len(tokens1), Len(tokens2)), ChunkStride * 2)
        exact == {k \in 2..max_check : Suffix(tokens1, k) = Prefix(tokens2, k)}
    IN  IF exact # {} THEN CHOOSE k \in exact : \A l \in exact : k <= l ELSE 0

\* lines 110-118: the overlap_len at which the loop range(max_check, 1, -1)
\* finds the exact token match, 0 if it ends without one
ExactOverlap(tokens1, tokens2) ==
    LET max_check == Min(Min(Len(tokens1), Len(tokens2)), ChunkStride * 2)
        exact == {k \in 2..max_check : Suffix(tokens1, k) = Prefix(tokens2, k)}
    IN  IF exact # {} THEN CHOOSE k \in exact : \A l \in exact : l <= k ELSE 0

\* _merge_with_overlap_detection, lines 83-149; tiktoken tells whether the
\* import and the encoding succeed
merge_with_overlap_detection(text1, text2, tiktoken) ==
    IF text1 = <<>> \/ text2 = <<>> THEN text1 \o text2
    ELSE IF ~tiktoken THEN text1 \o <<SP>> \o text2
    ELSE LET overlap_len == ExactOverlap(text1, text2)
         IN  IF overlap_len > 0
             THEN text1 \o SubSeq(text2, overlap_len + 1, Len(text2))
             ELSE IF PartialWord(text1, text2) > 0
             THEN Prefix(text1, Len(text1) - PartialWord(text1, text2)) \o text2
             ELSE text1 \o <<SP>> \o text2

\* lines 56-72: the loop over the chunks, docs[i] being enumerate's i - 1.
\* A blank chunk is skipped before the test `i == 0`, so a later chunk can
\* find processed_chunks empty: processed_chunks[-1] raises IndexError.
RECURSIVE JoinLoop(_, _, _, _)
JoinLoop(processed_chunks, docs, i, tiktoken) ==
    IF i > Len(docs) THEN [chunks |-> processed_chunks, error |-> ""]
    ELSE LET current_text == docs[i]
             last == Len(processed_chunks)
         IN  IF current_text = <<>>
             THEN JoinLoop(processed_chunks, docs, i + 1, tiktoken)
             ELSE IF i = 1
             THEN JoinLoop(Append(processed_chunks, current_text), docs, i + 1, tiktoken)
             ELSE IF last = 0
             THEN [chunks |-> processed_chunks, error |-> "IndexError"]
             ELSE LET merged == merge_with_overlap_detection(processed_chunks[last],
                                                             current_text, tiktoken)
                  IN  IF merged # processed_chunks[last]
                      THEN JoinLoop([processed_chunks EXCEPT ![last] = merged], docs, i + 1,
                                    tiktoken)
                      ELSE JoinLoop(Append(processed_chunks, current_text), docs, i + 1,
                                    tiktoken)

\* line 75: sep.join(processed_chunks)
RECURSIVE SepJoin(_)
SepJoin(chunks) ==
    IF chunks = <<>> THEN <<>>
    ELSE IF Len(chunks) = 1 THEN chunks[1]
    ELSE chunks[1] \o <<SP>> \o SepJoin(Tail(chunks))

DOT == 46

\* lines 76-80: re.sub(r'\s+', ' '), re.sub(r'\.+', '.'), re.sub(r'\s+\.', '.')
\* applied in this order, then strip()
Tidy(joined) ==
    LET Keep(s, K) ==
            LET F[i \in 0..Len(s)] ==
                    IF i = 0 THEN <<>>
                    ELSE IF i \in K THEN Append(F[i - 1], s[i]) ELSE F[i - 1]
            IN  F[Len(s)]
        Collapse(s, c) ==
            Keep(s, {i \in 1..Len(s) : ~(s[i] = c /\ i > 1 /\ s[i - 1] = c)})
        BeforePeriod(s, i) ==
            \E j \in (i + 1)..Len(s) :
                s[j] = DOT /\ \A k \in i..(j - 1) : s[k] = SP
        DropSpaces(s) == Keep(s, {i \in 1..Len(s) : ~BeforePeriod(s, i)})
        Strip(s) ==
            Keep(s, {i \in 1..Len(s) :
                       (\E k \in 1..i : s[k] # SP) /\ (\E k \in i..Len(s) : s[k] # SP)})
    IN  Strip(DropSpaces(Collapse(Collapse(joined, SP), DOT)))

\* _deduplicate_and_join_text, lines 43-80, on chunks given with their
\* whitespace already single (lines 52-53, 57); error names the exception
\* that leaves the function, if any
deduplicate_and_join_text(docs, tiktoken) ==
    IF docs = <<>> THEN [text |-> <<>>, error |-> ""]
    ELSE IF Len(docs) = 1 THEN [text |-> docs[1], error |-> ""]
    ELSE LET r == JoinLoop(<<>>, docs, 1, tiktoken)
         IN  IF r.error # "" THEN [text |-> <<>>, error |-> r.error]
             ELSE [text |-> Tidy(SepJoin(r.chunks)), error |-> ""]

\* A run of n distinct tokens, and the tokens before and after it.
RunOf(n) == [i \in 1..n |-> i]

Before == {<<>>, <<91>>, <<91, 92>>}

After == {<<>>, <<95>>, <<95, 96>>}

\* Adjacent chunks A and B: the last n tokens of A are the first n of B.
MergeInputs ==
    {[a |-> p \o RunOf(n), b |-> RunOf(n) \o s, n |-> n, tiktoken |-> t] :
        n \in 2..MaxRun, p \in Before, s \in After, t \in BOOLEAN}

\* Chunks with periods, blanks between words, and blank chunks.
JoinInputs ==
    LET texts == {<<>>, <<1>>, <<DOT>>, <<1, DOT>>, <<DOT, 1>>, <<1, SP, DOT>>,
                  <<1, DOT, DOT>>, <<1, SP, 1>>}
    IN  {[a |-> a, b |-> b, n |-> 0, tiktoken |-> t] :
            a \in texts, b \in texts, t \in BOOLEAN}

MergeInit ==
    /\ px_in \in MergeInputs \cup JoinInputs
    /\ px_out = <<>>
    /\ px_done = FALSE

DeduplicateAndJoinCall ==
    /\ ~px_done
    /\ px_out' = deduplicate_and_join_text(<<px_in.a, px_in.b>>, px_in.tiktoken)
    /\ px_done' = TRUE
    /\ UNCHANGED px_in
    /\ UNCHANGED nonPxVars

----------------------------------------------------------------------------
(* batch_expand_text applied to a list of text hits on its own *)

MaxExpand == 3

\* Text hits with or without an id; the year tells apart two hits of one id.
ExpandItems ==
    {Item(id, Filter.TEXT, y, "", "", "", Absent, Absent) :
        id \in {"", "a", "b"}, y \in {"GENERAL", "SARJANA"}}

ExpandInit ==
    /\ px_in \in SeqsUpTo(ExpandItems, MaxExpand)
    /\ px_out = <<>>
    /\ px_done = FALSE

BatchExpandTextCall ==
    /\ ~px_done
    /\ px_out' = batch_expand_text(px_in)
    /\ px_done' = TRUE
    /\ UNCHANGED px_in
    /\ UNCHANGED nonPxVars

----------------------------------------------------------------------------
(* _merge_with_overlap_detection applied to two texts on its own *)

MaxTok == 3

\* Two texts over two tokens, so that several overlap lengths can match, and
\* the chunks sharing a long run.
OverlapInit ==
    /\ px_in \in MergeInputs
                 \cup {[a |-> a, b |-> b, n |-> 0, tiktoken |-> t] :
                         a \in SeqsUpTo({1, 2}, MaxTok) \ {<<>>},
                         b \in SeqsUpTo({1, 2}, MaxTok) \ {<<>>}, t \in BOOLEAN}
    /\ px_out = <<>>
    /\ px_done = FALSE

MergeWithOverlapCall ==
    /\ ~px_done
    /\ px_out' = merge_with_overlap_detection(px_in.a, px_in.b, px_in.tiktoken)
    /\ px_done' = TRUE
    /\ UNCHANGED px_in
    /\ UNCHANGED nonPxVars

----------------------------------------------------------------------------
(* chat_history.py: the session store.  _store is kept as the number of its *)
(* entries; which sessions have expired is for the clock to say, so the     *)
(* time-based cleanup removes any number of them.                           *)

MaxSessions == 100

\* _cleanup_expired_sessions, lines 126-148: the sizes the store can have
\* after it; at capacity the oldest _MAX_SESSIONS // 5 go
CleanupOutcomes(count) ==
    IF count >= MaxSessions
    THEN {count - (MaxSessions \div 5)}
    ELSE 0..count

\* get_history, lines 187-193
GetHistoryCall(t) ==
    /\ ss_pc[t] = "idle"
    /\ ss_pc' = [ss_pc EXCEPT ![t] = IF ss_count > 0 THEN "cleanup" ELSE "store"]
    /\ UNCHANGED ss_count
    /\ UNCHANGED nonSsVars

\* get_history, line 194: the cleanup, under _cleanup_lock
GetHistoryCleanup(t) ==
    /\ ss_pc[t] = "cleanup"
    /\ ss_count' \in CleanupOutcomes(ss_count)
    /\ ss_pc' = [ss_pc EXCEPT ![t] = "store"]
    /\ UNCHANGED nonSsVars

\* get_history, lines 196-208: the entry of the session is created (is_new)
\* or its access time refreshed; no lock is held
GetHistoryStore(t, is_new) ==
    /\ ss_pc[t] = "store"
    /\ is_new \/ ss_count > 0
    /\ ss_count' = IF is_new THEN ss_count + 1 ELSE ss_count
    /\ ss_pc' = [ss_pc EXCEPT ![t] = "idle"]
    /\ UNCHANGED nonSsVars

\* _background_cleanup, lines 154-172: the daemon thread wakes up
BackgroundCleanup ==
    /\ ss_count > 0
    /\ ss_count' \in CleanupOutcomes(ss_count)
    /\ UNCHANGED ss_pc
    /\ UNCHANGED nonSsVars

----------------------------------------------------------------------------
(* Specifications *)

InitFilter == FbInit /\ EvInit /\ SmIdle /\ RgInit /\ SsIdle /\ PxIdle

NextFilter == BuildFilterCall

SpecFilter == InitFilter /\ [][NextFilter]_vars

InitEval == FbIdle /\ EvInit /\ SmIdle /\ RgInit /\ SsIdle /\ PxIdle

NextEval ==
    \/ \E docs \in SeqsUpTo(DocIds, MaxDocs), query \in Queries : EvaluateCall(docs, query)
    \/ \E i \in 1..MaxDocs : TaskIssueCall(i)
    \/ \E i \in 1..MaxDocs : TaskRenderRaises(i)
    \/ \E i \in 1..MaxDocs, r \in ItemReplies : TaskReply(i, r)
    \/ \E i \in 1..MaxDocs : TaskCallRaises(i)
    \/ \E i \in 1..MaxDocs : TaskTimeout(i)
    \/ GatherRaises
    \/ GatherReturns
    \/ EvaluateNext

SpecEval == InitEval /\ [][NextEval]_vars

InitSem == FbIdle /\ EvInit /\ SmIdle /\ RgInit /\ SsIdle /\ PxIdle

NextSem ==
    \/ \E r \in Invocations, n \in UncachedCounts : SemStart(r, n)
    \/ \E r \in Invocations : SemAcquire(r)
    \/ \E r \in Invocations : SemRelease(r)
    \/ \E r \in Invocations : SemFinish(r)

SpecSem == InitSem /\ [][NextSem]_vars

Init == FbIdle /\ EvInit /\ SmIdle /\ RgInit /\ SsIdle /\ PxIdle

Next ==
    \/ \E query_types \in RagModalities, year \in RagYears : GetRagCall(query_types, year)
    \/ \E probe \in Probes, store_hits \in StoreHits(rg_where) :
           SearchReturns(probe, store_hits)
    \/ \E probe \in Probes : SearchRaises(probe)
    \/ ExpandReturns
    \/ PreviewReturns
    \/ PreviewRaises
    \/ \E outcome \in BatchOutcomes(Len(rg_preview)) : EvaluateReturns(outcome)
    \/ RenderFullReturns
    \/ DedupRaises

Spec == Init /\ [][Next]_vars

InitWindow == FbIdle /\ EvInit /\ SmIdle /\ RgInit /\ SsIdle /\ WindowInit

NextWindow == ExpandOneWindow

SpecWindow == InitWindow /\ [][NextWindow]_vars

InitDedup == FbIdle /\ EvInit /\ SmIdle /\ RgInit /\ SsIdle /\ DedupInit

NextDedup == BatchDeduplicateCall

SpecDedup == InitDedup /\ [][NextDedup]_vars

InitMerge == FbIdle /\ EvInit /\ SmIdle /\ RgInit /\ SsIdle /\ MergeInit

NextMerge == DeduplicateAndJoinCall

SpecMerge == InitMerge /\ [][NextMerge]_vars

InitExpand == FbIdle /\ EvInit /\ SmIdle /\ RgInit /\ SsIdle /\ ExpandInit

NextExpand == BatchExpandTextCall

SpecExpand == InitExpand /\ [][NextExpand]_vars

InitOverlap == FbIdle /\ EvInit /\ SmIdle /\ RgInit /\ SsIdle /\ OverlapInit

NextOverlap == MergeWithOverlapCall

SpecOverlap == InitOverlap /\ [][NextOverlap]_vars

InitStore == FbIdle /\ EvInit /\ SmIdle /\ RgInit /\ SsIdle /\ PxIdle

NextStore ==
    \/ \E t \in Threads : GetHistoryCall(t)
    \/ \E t \in Threads : GetHistoryCleanup(t)
    \/ \E t \in Threads, is_new \in BOOLEAN : GetHistoryStore(t, is_new)
    \/ BackgroundCleanup

SpecStore == InitStore /\ [][NextStore]_vars

----------------------------------------------------------------------------
(* Claims about build_filter, checked under SpecFilter *)

\* The modality strings that lower-case to one of the four names of lines 15-21
\* (the empty string is replaced by "all" on line 10).
RecognizedModalityStrings == {"all", "text", "image", "table", "TEXT", "Table", ""}

UnrecognizedModality ==
    fb_in.modalities.kind = "str" /\ fb_in.modalities.s \notin RecognizedModalityStrings

AllTypeSet == {"text", "image", "table_row", "table_caption", "tendik"}

ConcreteYear == fb_in.year.kind = "str" /\ fb_in.year.s \notin {"", "all"}

\* C6: when a concrete year string is given, the predicate is the type clause
\* AND the year clause (year == requested) OR (year == GENERAL), the requested
\* year compared in upper case; when no year is given there is no year clause.
C6_YearClause ==
    fb_done =>
        /\ ConcreteYear =>
              /\ Len(fb_out.where.and) = 2
              /\ fb_out.where.and[2] = YearOr(StrUpper(fb_in.year.s))
        /\ fb_in.year.kind = "none" => YearClausesOf(fb_out.where) = <<>>

\* C7: for a (non-empty) list of modality names the type clause is exactly the union of the
\* types mapped from the names in the list, plus the staff type.
C7_ListUnion ==
    (fb_done /\ fb_in.modalities.kind = "list" /\ Len(fb_in.modalities.l) >= 1) =>
        LET clause == TypeClauseOf(fb_out.where)
        IN  /\ clause.op = "$in"
            /\ Range(clause.vals) =
                 UNION {Range(TypeConditionsOf(fb_in.modalities.l[i])) :
                            i \in 1..Len(fb_in.modalities.l)}
                 \cup {Filter.TENDIK}

----------------------------------------------------------------------------
(* Claims about get_rag (checked under Spec) *)

\* The request ended and the similarity search had returned no hits.
SearchFoundNothing ==
    rg_pc \in RgTerminal /\ rg_hits = <<>> /\ rg_error # "StoreError"

\* C1: when the similarity search returns no hits, get_rag ends in EMPTY: it
\* returns a bundle with empty context, no image and no table references and
\* a 'no results' marker, and raises nothing.
C1_NoHitsEndsEmpty ==
    SearchFoundNothing =>
        /\ rg_pc = "EMPTY"
        /\ rg_error = ""
        /\ rg_bundle = EmptyBundle

\* The judgment has returned to get_rag.
Judged == rg_pc \in {"EMPTY", "RENDER_FULL", "DONE"} /\ rg_calls.judge = 1

\* The judgment call failed, or its reply holds no decodable JSON object.
JudgmentUnusable == rg_reply.raises \/ rg_reply.text \in UndecodableTexts

\* C2: batched evaluation fails open: when the judgment call fails or its
\* reply holds no decodable JSON object, the verdict keeps exactly the
\* ordinals 1..n, filter_docs_by_ids returns all n candidates, and no error
\* reaches get_rag.
C2_FailOpen ==
    (Judged /\ JudgmentUnusable) =>
        /\ rg_verdict.ids = [i \in 1..Len(rg_all_docs) |-> i]
        /\ rg_relevant = rg_all_docs
        /\ rg_pc # "EMPTY"
        /\ rg_error = ""

C2_Witness ==
    /\ rg_pc = "DONE"
    /\ ~rg_reply.raises
    /\ rg_reply.text = <<TXT>>
    /\ Len(rg_all_docs) = 2
    /\ rg_relevant = rg_all_docs
    /\ Len(rg_bundle.metadatas) = 2

----------------------------------------------------------------------------
(* Claims about per-item evaluate_relevance (checked under SpecEval) *)

TaskRets == {ev_task[i].ret : i \in 1..Len(ev_task)}

\* C3: a judgment call that exceeds its timeout yields 'not relevant' for
\* that candidate only: evaluate_relevance does not raise and still returns
\* the verdicts of the other candidates.
C3_TimeoutDropsOne ==
    ("TimeoutError" \in TaskRets /\ TaskRets \cap {"LLMError", "RenderError"} = {})
        => ev_pc # "raised"

\* C4: a failure inside one candidate's task (the judgment call raising, the
\* preview rendering raising) is caught for that task and never propagates
\* out of evaluate_relevance.
C4_TaskFailureContained ==
    (TaskRets \cap {"LLMError", "RenderError"} # {} /\ "TimeoutError" \notin TaskRets)
        => ev_pc # "raised"

\* The verdict the cache held for a candidate when evaluate_relevance read it.
CachedAtCall(d) == ev_cache0[get_cache_key(d, ev_query)]

\* C9: a judgment call is issued for a candidate only on a cache miss for its
\* key; a cached True keeps the candidate and a cached False drops it, with
\* no judgment call; every verdict computed by the invocation is in the
\* cache under the candidate's key when the result is returned.
C9_CacheGatesCalls ==
    /\ \A d \in DocIds :
          ev_calls[d] > 0 => (d \in Range(ev_docs) /\ CachedAtCall(d) = "None")
    /\ ev_pc = "returned" =>
          /\ \A d \in Range(ev_docs) :
                /\ CachedAtCall(d) = "True" => (d \in Range(ev_result) /\ ev_calls[d] = 0)
                /\ CachedAtCall(d) = "False" => (d \notin Range(ev_result) /\ ev_calls[d] = 0)
          /\ \A i \in 1..Len(ev_task) :
                relevance_cache[get_cache_key(ev_uncached[i], ev_query)]
                    \in {ev_task[j].v : j \in {k \in 1..Len(ev_task) :
                                                 ev_uncached[k] = ev_uncached[i]}}

C9_Witness ==
    /\ ev_pc = "returned"
    /\ ev_docs = <<"a", "b">>
    /\ CachedAtCall("a") = "False"
    /\ CachedAtCall("b") = "None"
    /\ ev_calls = [d \in DocIds |-> IF d = "b" THEN 1 ELSE 0]
    /\ ev_result = <<"b">>
    /\ relevance_cache[get_cache_key("b", ev_query)] = "True"

----------------------------------------------------------------------------
(* Claims about the semaphore (checked under SpecSem) *)

\* C10: at every moment the number of per-item judgment calls in flight is at
\* most the semaphore width 16, counted over all evaluate_relevance
\* invocations running concurrently in the process.
C10_ProcessWideBound == TotalInFlight <= SemWidth

\* C10 as amended: each invocation has at most 16 judgment calls in flight;
\* over the concurrent invocations the bound is 16 per invocation.
C10_PerInvocationBound ==
    /\ \A r \in Invocations : InFlight(r) <= SemWidth
    /\ TotalInFlight <= SemWidth * Cardinality(Invocations)

C10_Witness ==
    \E r \in Invocations :
        /\ InFlight(r) = SemWidth
        /\ sm[r].waiting >= 1
        /\ sm[r].sem = 0

----------------------------------------------------------------------------
(* Claims about expand_one (checked under SpecWindow) *)

\* C11: for a text hit with 0 <= idx < total and a window size w >= 2, the
\* window [start, end) satisfies 0 <= start < end <= total and, whenever
\* total >= w, end - start = w exactly.
C11_WindowExact ==
    px_done =>
        /\ 0 <= px_out.start
        /\ px_out.start < px_out.end
        /\ px_out.end <= px_in.total
        /\ px_in.total >= px_in.w => px_out.end - px_out.start = px_in.w

----------------------------------------------------------------------------
(* Claims about the batched verdict in get_rag (checked under Spec) *)

\* The positions of the submitted batch that occur in the verdict's ids.
KeptOrdinals == {i \in 1..Len(rg_all_docs) : i \in Range(rg_verdict.ids)}

\* C12: filter_docs_by_ids returns exactly the candidates whose position
\* 1..n in the submitted batch occurs in ids, in batch order, each once;
\* ordinals outside 1..n, repeated ordinals and the order of ids have no
\* effect.
C12_OrdinalsByPosition ==
    Judged =>
        /\ Len(rg_relevant) = Cardinality(KeptOrdinals)
        /\ \E f \in [1..Len(rg_relevant) -> KeptOrdinals] :
              /\ \A a, b \in 1..Len(rg_relevant) : a < b => f[a] < f[b]
              /\ \A a \in 1..Len(rg_relevant) : rg_relevant[a] = rg_all_docs[f[a]]

C12_Witness ==
    /\ Judged
    /\ Len(rg_all_docs) = 2
    /\ rg_verdict.ids = <<2, 1>>
    /\ rg_relevant = rg_all_docs

\* C13: when the verdict keeps no candidate (ids empty or holding only
\* ordinals outside 1..n) get_rag goes from EVALUATE to EMPTY: it returns the
\* minimal empty bundle, raises nothing, and performs neither the full
\* rendering nor the deduplication (the preview rendering stays the only one).
C13_NoSurvivorsEndsEmpty ==
    (Judged /\ KeptOrdinals = {}) =>
        /\ rg_pc = "EMPTY"
        /\ rg_error = ""
        /\ rg_bundle.context = <<>>
        /\ rg_bundle.image_paths = <<>>
        /\ rg_bundle.csv_paths = <<>>
        /\ rg_bundle.metadatas = <<>>
        /\ rg_bundle.filter_message = "No relevant documents found"
        /\ rg_deduped = <<>>
        /\ rg_calls.render = 1

C13_Witness ==
    /\ rg_pc = "EMPTY"
    /\ Len(rg_all_docs) = 2
    /\ rg_verdict.ids = <<0, 3>>
    /\ rg_bundle = EmptyBundle
    /\ rg_calls.render = 1

\* The candidates the verdict kept.
KeptItems == {rg_all_docs[i] : i \in KeptOrdinals}

\* The image paths an item can contribute: its own and those of its persons.
ImagePathsOf(d) ==
    {d.image_path}
    \cup (IF Len(d.pair.v) >= 1 THEN {d.pair.v[1]} ELSE {})
    \cup {d.pairs.v[k][1] : k \in {j \in 1..Len(d.pairs.v) : Len(d.pairs.v[j]) >= 1}}

\* C14: every text block, metadata entry, image reference and table
\* reference of the returned bundle comes from an item whose ordinal the
\* verdict kept; when the search returns one staff-table item and one text
\* item and the verdict keeps only the staff item, the bundle holds only the
\* staff item and its table path, joined to the static root, is among the
\* table references.
C14_BundleFromKeptOnly ==
    rg_pc = "DONE" =>
        /\ \A i \in 1..Len(rg_bundle.context) :
              \E d \in KeptItems : /\ rg_bundle.context[i].prefix = d.id
                                   /\ rg_bundle.context[i].content.of = d.id
        /\ \A i \in 1..Len(rg_bundle.metadatas) : rg_bundle.metadatas[i] \in KeptItems
        /\ \A i \in 1..Len(rg_bundle.image_paths) :
              \E d \in KeptItems : \E p \in ImagePathsOf(d) :
                 p # "" /\ rg_bundle.image_paths[i].path = StaticJoin(p)
        /\ \A i \in 1..Len(rg_bundle.csv_paths) :
              \E d \in KeptItems :
                 d.csv_path # "" /\ rg_bundle.csv_paths[i].path = StaticJoin(d.csv_path)
        /\ (rg_all_docs = <<ItemText, ItemStaff>> /\ KeptOrdinals = {2}) =>
              /\ rg_bundle.metadatas = <<ItemStaff>>
              /\ Len(rg_bundle.context) = 1
              /\ \E i \in 1..Len(rg_bundle.csv_paths) :
                    rg_bundle.csv_paths[i].path = StaticJoin("staff.csv")

C14_Witness ==
    /\ rg_pc = "DONE"
    /\ rg_hits = <<ItemStaff, ItemText>>
    /\ rg_all_docs = <<ItemText, ItemStaff>>
    /\ rg_verdict.ids = <<2>>
    /\ rg_bundle.metadatas = <<ItemStaff>>
    /\ rg_bundle.csv_paths =
          <<[path |-> StaticJoin("staff.csv"), caption |-> "Kepala Laboratorium"]>>

----------------------------------------------------------------------------
(* Claims about batch_deduplicate (checked under SpecDedup) *)

\* The items of the batch at the positions K, in batch order.
BatchAt(K) ==
    LET F[i \in 0..Len(px_in.docs)] ==
            IF i = 0 THEN <<>>
            ELSE IF i \in K
                 THEN Append(F[i - 1], [meta |-> px_in.docs[i], content |-> px_in.contents[i]])
                 ELSE F[i - 1]
    IN  F[Len(px_in.docs)]

\* What batch_deduplicate returned, as (meta, content) entries.
Survivors ==
    [i \in 1..Len(px_out.metadatas) |->
        [meta |-> px_out.metadatas[i], content |-> px_out.texts[i].content]]

\* Items i and j of the batch have the same whitespace-normalized content, or
\* the same id (both having one).
SameContent(i, j) ==
    px_in.contents[i].of = px_in.contents[j].of
    /\ px_in.contents[i].label = px_in.contents[j].label
    /\ px_in.contents[i].table = px_in.contents[j].table
    /\ px_in.contents[i].full = px_in.contents[j].full

SameId(i, j) == px_in.docs[i].id # "" /\ px_in.docs[i].id = px_in.docs[j].id

\* C15: batch_deduplicate skips an item if its whitespace-normalized content
\* or its id was already seen on an earlier item of the batch, and only then;
\* an item without an id is skipped only because of its content.
C15_SkipIfSeenBefore ==
    px_done =>
        Survivors = BatchAt({i \in 1..Len(px_in.docs) :
                               ~\E j \in 1..(i - 1) : SameContent(i, j) \/ SameId(i, j)})

\* C15 as amended: an item is skipped iff its normalized content or its id
\* equals that of an earlier item that was kept; a skipped item leaves no
\* trace.  For two items: identical content keeps the first only, the same
\* id keeps the first only, and two items without id differ only by content.
C15_SkipIfSeenOnKept ==
    px_done =>
        /\ px_out.error = ""
        /\ \E K \in SUBSET (1..Len(px_in.docs)) :
              /\ \A i \in 1..Len(px_in.docs) :
                    i \in K <=> ~\E j \in K : j < i /\ (SameContent(i, j) \/ SameId(i, j))
              /\ Survivors = BatchAt(K)
        /\ (Len(px_in.docs) = 2 /\ (SameContent(2, 1) \/ SameId(2, 1)))
              => Survivors = BatchAt({1})
        /\ (Len(px_in.docs) = 2 /\ ~SameContent(2, 1) /\ px_in.docs[2].id = "")
              => Survivors = BatchAt({1, 2})

C15_Witness ==
    /\ px_done
    /\ px_in.docs = <<PlainItem("x"), PlainItem("x"), PlainItem("y")>>
    /\ px_in.contents = <<Txt("A", "raw"), Txt("B", "single"), Txt("B", "single")>>
    /\ px_out.metadatas = <<PlainItem("x"), PlainItem("y")>>

----------------------------------------------------------------------------
(* Claims about similarity_search (checked under Spec) *)

\* C16: similarity_search makes the store's similarity call exactly when the
\* existence probe did not report zero.  A count of 0 gives the empty list
\* and no similarity call; a non-zero count, a missing probe and a probe that
\* raises all reach the similarity call, whose result (at most k pairs) is
\* returned as the store ordered it.
C16_ProbeGatesSearch ==
    rg_search # NoSearch =>
        /\ rg_search.probe = "zero" => rg_hits = <<>> /\ rg_calls.sim = 0
        /\ rg_search.probe \in {"nonzero", "absent", "raises"} =>
              /\ rg_calls.sim = 1
              /\ rg_hits = rg_search.store
              /\ Len(rg_hits) <= MaxHits

C16_Witness ==
    /\ rg_search.probe = "raises"
    /\ rg_calls.sim = 1
    /\ Len(rg_hits) = 2
    /\ rg_hits[1].type # rg_hits[2].type
    /\ rg_pc = "EXPAND"

----------------------------------------------------------------------------
(* Claims about table files (checked under Spec) *)

\* The resolved table paths of a batch for which no file exists.
MissingOf(docs) == {resolve_csv_path(p) : p \in CsvPathsOf(docs)} \ FilesPresent

\* C17: loading a table file that does not exist is a hard failure.  The
\* converter's error leaves load_csv_md_cached, batch_load_csv,
\* batch_build_content and get_rag as it is: no content is rendered in its
\* place, and the load adds no entry for that path to the CSV cache.
C17_MissingFileIsFatal ==
    [][(rg_pc = "RENDER_PREVIEW" /\ MissingOf(rg_all_docs) \ csv_cache # {}) =>
          /\ rg_pc' = "RAISED"
          /\ rg_error' = "ValueError: CSV file not found"
          /\ rg_preview' = rg_preview
          /\ rg_bundle' = NoBundle
          /\ csv_cache' \cap MissingOf(rg_all_docs) = csv_cache \cap MissingOf(rg_all_docs)]_vars

C17_Witness ==
    /\ rg_pc = "RAISED"
    /\ rg_error = "ValueError: CSV file not found"
    /\ MissingOf(rg_all_docs) # {}
    /\ csv_cache \cap MissingOf(rg_all_docs) = {}
    /\ rg_preview = <<>>

----------------------------------------------------------------------------
(* Claims about the staff members pair / pairs (checked under Spec) *)

\* A pair value that is present and is not a (path, name) of two strings.
MalformedPair(v) == Truthy(v) /\ (~v.ok \/ Len(v.v) # 2 \/ NotStr \in Range(v.v))

\* C18: in batch_deduplicate a malformed pair / pairs value of a staff item
\* (unparsable string, wrong arity, an element of the wrong type such as a
\* person name that is not a string) is skipped: it registers no image
\* reference, no exception leaves batch_deduplicate, and the remaining items
\* of the batch are still processed.
C18_MalformedPairSkipped ==
    \A i \in 1..Len(rg_deduped) :
        (rg_deduped[i].type = Filter.TENDIK /\ MalformedPair(rg_deduped[i].pair)) =>
            LET r == DedupOf(rg_deduped)
            IN  /\ r.error = ""
                /\ Len(rg_deduped[i].pair.v) >= 1 =>
                      ~\E e \in Range(r.image_dict) : e.path = rg_deduped[i].pair.v[1]
                /\ Len(r.metadatas) = Len(rg_deduped)
                /\ rg_pc = "RAISED" => rg_error # "AttributeError"

----------------------------------------------------------------------------
(* Claims about _deduplicate_and_join_text (checked under SpecMerge) *)

\* The positions of seq at which run starts.
OccurrencesOf(run, seq) ==
    {i \in 1..(Len(seq) - Len(run) + 1) : SubSeq(seq, i, i + Len(run) - 1) = run}

\* C19: for adjacent chunks A and B merged by _deduplicate_and_join_text,
\* when the last n >= 2 tokens of A equal the first n tokens of B, the merged
\* passage contains that shared run once, not twice.
C19_SharedRunOnce ==
    (px_done /\ px_in.n >= 2) =>
        Cardinality(OccurrencesOf(RunOf(px_in.n), px_out.text)) = 1

\* The cases in which the run is merged: the tokenizer is available, the run
\* has at most 2 * chunk_stride tokens and chunk B goes on after it.
MergedWhenBContinues ==
    (px_done /\ px_in.tiktoken /\ px_in.n \in 2..(2 * ChunkStride) /\ Len(px_in.b) > px_in.n)
        => px_out.text = px_in.a \o SubSeq(px_in.b, px_in.n + 1, Len(px_in.b))

----------------------------------------------------------------------------
(* Claims about batch_expand_text (checked under SpecExpand) *)

\* The hits given to batch_expand_text at the positions K, in their order.
HitsAt(K) ==
    LET F[i \in 0..Len(px_in)] ==
            IF i = 0 THEN <<>>
            ELSE IF i \in K THEN Append(F[i - 1], px_in[i]) ELSE F[i - 1]
    IN  F[Len(px_in)]

\* C20: with a window size above 1 the list returned by batch_expand_text
\* has pairwise distinct, non-empty ids: of each id only the first item in
\* batch order is kept, the kept items keep their relative order, and every
\* item lacking an id is dropped.
C20_DistinctIdsFirstKept ==
    (px_done /\ ContextExpansionWindow > 1) =>
        /\ \A i \in 1..Len(px_out) : px_out[i].id # ""
        /\ \A i, j \in 1..Len(px_out) : i # j => px_out[i].id # px_out[j].id
        /\ px_out = HitsAt({i \in 1..Len(px_in) :
                              /\ px_in[i].id # ""
                              /\ \A j \in 1..(i - 1) : px_in[j].id # px_in[i].id})

C20_Witness ==
    /\ px_done
    /\ Len(px_in) = 3
    /\ px_in[1].id = "a" /\ px_in[2].id = "" /\ px_in[3].id = "a"
    /\ px_in[1].year # px_in[3].year
    /\ px_out = <<px_in[1]>>

----------------------------------------------------------------------------
(* Claims about the batched judgment call (checked under Spec) *)

\* C21: every get_rag request that reaches EVALUATE issues exactly one
\* judgment call, with exactly one user-role message that covers all n
\* candidates tagged [1]..[n] in batch order, for every n >= 1; the call is
\* not retried.
C21_OneCallOneMessage ==
    /\ Len(rg_sent) = rg_calls.judge
    /\ Len(rg_sent) <= 1
    /\ rg_pc \in {"SEARCH", "EXPAND", "RENDER_PREVIEW", "EVALUATE"} => rg_sent = <<>>
    /\ rg_pc \in {"EMPTY", "RENDER_FULL", "DONE"} => Len(rg_sent) = 1
    /\ Len(rg_sent) = 1 =>
          /\ Len(rg_sent[1]) = 1
          /\ rg_sent[1][1].role = "user"
          /\ Len(rg_sent[1][1].docs) = Len(rg_all_docs)
          /\ Len(rg_all_docs) >= 1
          /\ \A i \in 1..Len(rg_all_docs) :
                /\ rg_sent[1][1].docs[i].tag = i
                /\ rg_sent[1][1].docs[i].type = rg_all_docs[i].type
                /\ rg_sent[1][1].docs[i].content = ContentOf(rg_all_docs[i], FALSE)

C21_Witness ==
    /\ rg_pc = "RENDER_FULL"
    /\ rg_reply.raises
    /\ Len(rg_sent) = 1
    /\ Len(rg_sent[1][1].docs) = 2
    /\ rg_sent[1][1].docs[2].tag = 2

----------------------------------------------------------------------------
(* Claims about the order of the stages of get_rag (checked under Spec) *)

\* The stage that follows a stage when nothing fails and something is kept.
\* BUILD_FILTER is the synchronous first step of the request (with SEARCH)
\* and DEDUPLICATE the synchronous last step of RENDER_FULL.
StageAfter ==
    [s \in {"SEARCH", "EXPAND", "RENDER_PREVIEW", "EVALUATE", "RENDER_FULL"} |->
        CASE s = "SEARCH"         -> "EXPAND"
          [] s = "EXPAND"         -> "RENDER_PREVIEW"
          [] s = "RENDER_PREVIEW" -> "EVALUATE"
          [] s = "EVALUATE"       -> "RENDER_FULL"
          [] s = "RENDER_FULL"    -> "DONE"]

\* C22: within one get_rag request the stages occur only in the order
\* BUILD_FILTER, SEARCH, EXPAND, RENDER_PREVIEW, EVALUATE, RENDER_FULL,
\* DEDUPLICATE, DONE; the judge is given preview-mode content only, the
\* full-mode rendering starts only after the verdict has been returned, and
\* it is applied only to items the verdict kept.
C22_StageOrder ==
    [][/\ (rg_pc' # rg_pc /\ rg_pc \in DOMAIN StageAfter) =>
             \/ rg_pc' = StageAfter[rg_pc]
             \/ rg_pc' = "RAISED"
             \/ rg_pc = "EVALUATE" /\ rg_pc' = "EMPTY"
       /\ (rg_pc' # rg_pc /\ rg_pc \notin DOMAIN StageAfter) =>
             /\ rg_pc' = "SEARCH"
             /\ rg_where' = build_filter(rg_args'.query_types, rg_args'.year).where
       /\ rg_sent' # rg_sent =>
             \A k \in 1..Len(rg_sent') : \A j \in 1..Len(rg_sent'[k]) :
                 \A i \in 1..Len(rg_sent'[k][j].docs) : ~rg_sent'[k][j].docs[i].content.full
       /\ rg_calls'.render > 1 => (rg_calls'.judge = 1 /\ rg_verdict' # NoVerdict)
       /\ rg_pc' = "DONE" =>
             \A i \in 1..Len(rg_bundle'.context) :
                 /\ rg_bundle'.context[i].content.full
                 /\ \E k \in 1..Len(rg_relevant') :
                       rg_bundle'.context[i].content = ContentOf(rg_relevant'[k], TRUE)]_vars

C22_Witness ==
    /\ rg_pc = "DONE"
    /\ Len(rg_relevant) < Len(rg_all_docs)
    /\ \E i \in 1..Len(rg_bundle.context) : rg_bundle.context[i].content.table # ""
    /\ rg_calls.render = 2

\* The normalized captions and the paths of a list of references are
\* pairwise distinct.
DistinctRefs(dict) ==
    \A i, j \in 1..Len(dict) :
        i # j => /\ normalize_caption(dict[i].caption) # normalize_caption(dict[j].caption)
                 /\ dict[i].path # dict[j].path

\* C23: in the output of batch_deduplicate no two image references have
\* captions of the same normalized form (lower case, punctuation stripped,
\* tokens sorted) and no two table references do; the person names of the
\* staff pair / pairs values count as image captions, and each path occurs
\* at most once in its list.
C23_DistinctNormalizedCaptions ==
    px_done =>
        /\ DistinctRefs(px_out.image_dict)
        /\ DistinctRefs(px_out.csv_dict)
        /\ \A i \in 1..Len(px_out.image_dict) :
              normalize_caption(px_out.image_dict[i].caption) # ""

C23_Witness ==
    /\ px_done
    /\ Len(px_in.docs) = 2
    /\ px_in.docs[1].caption = "Budi, Dr." /\ px_in.docs[1].image_path = "img/a.png"
    /\ px_in.docs[1].csv_path = "t1.csv" /\ px_in.docs[1].pair = Absent
    /\ px_in.docs[2].caption = "Dr. Budi" /\ px_in.docs[2].image_path = "img/b.png"
    /\ px_in.docs[2].csv_path = "t2.csv" /\ Truthy(px_in.docs[2].pair)
    /\ Len(px_out.metadatas) = 2
    /\ px_out.image_dict = <<[path |-> "img/a.png", caption |-> "Budi, Dr."]>>
    /\ px_out.csv_dict = <<[path |-> "t1.csv", caption |-> "Budi, Dr."]>>

----------------------------------------------------------------------------
(* Claims about _merge_with_overlap_detection (checked under SpecOverlap) *)

\* The overlap lengths the exact search looks at that match.
ExactMatches ==
    {k \in 2..Min(Min(Len(px_in.a), Len(px_in.b)), 2 * ChunkStride) :
        Suffix(px_in.a, k) = Prefix(px_in.b, k)}

\* C24: _merge_with_overlap_detection tries the exact token overlaps from
\* min(len(A), len(B), 2 * stride) down to 2 and stops at the first match:
\* when there is one, the result is A ++ B[n:] for the largest such n; an
\* overlap of exactly one token is never removed by this step.
C24_LargestExactOverlap ==
    (px_done /\ px_in.tiktoken) =>
        /\ ExactMatches # {} =>
              \E n \in ExactMatches :
                  /\ \A k \in ExactMatches : k <= n
                  /\ px_out = px_in.a \o SubSeq(px_in.b, n + 1, Len(px_in.b))
        /\ ExactOverlap(px_in.a, px_in.b) # 1
        /\ ExactMatches = {} => ExactOverlap(px_in.a, px_in.b) = 0

C24_Witness ==
    /\ px_done
    /\ px_in.tiktoken
    /\ px_in.a = <<1, 1, 1>>
    /\ px_in.b = <<1, 1, 1>>
    /\ ExactMatches = {2, 3}
    /\ px_out = <<1, 1, 1>>

----------------------------------------------------------------------------
(* Claims about the text _deduplicate_and_join_text returns (SpecMerge) *)

\* C25: for every list of two or more chunks, the text returned by
\* _deduplicate_and_join_text contains no run of two or more whitespace
\* characters and no run of two or more periods.
C25_NoRunsOfSpacesOrPeriods ==
    (px_done /\ px_out.error = "") =>
        \A i \in 1..(Len(px_out.text) - 1) :
            ~(px_out.text[i] \in {SP, DOT} /\ px_out.text[i + 1] = px_out.text[i])

\* The whitespace half of C25, which holds.
NoRunsOfSpaces ==
    (px_done /\ px_out.error = "") =>
        \A i \in 1..(Len(px_out.text) - 1) :
            ~(px_out.text[i] = SP /\ px_out.text[i + 1] = SP)

----------------------------------------------------------------------------
(* Claims about the session store (checked under SpecStore) *)

\* C26: the session store never holds more than _MAX_SESSIONS (100)
\* histories, in every state reachable by get_history calls, also when
\* request threads run concurrently with each other and with the background
\* cleanup thread.
C26_AtMostMaxSessions == ss_count <= MaxSessions

\* What does hold: a store above the limit has a request thread about to
\* store, or one that has just stored, for each session above it.
AtMostMaxSessionsPlusThreads == ss_count <= MaxSessions + MaxThreads - 1

----------------------------------------------------------------------------
(* Claims about the first deduplication pass of get_rag (checked under Spec) *)

\* The key of an item in the first pass.
FirstKey(d) == IF d.csv_path # "" THEN d.csv_path ELSE d.id

\* The kept items at the positions K, in their order.
RelevantAt(K) ==
    LET F[i \in 0..Len(rg_relevant)] ==
            IF i = 0 THEN <<>>
            ELSE IF i \in K THEN Append(F[i - 1], rg_relevant[i]) ELSE F[i - 1]
    IN  F[Len(rg_relevant)]

\* C27: the first deduplication pass of get_rag keys every item the verdict
\* kept by its csv_path when it has one and by its id otherwise, and keeps
\* the first item per key in batch order; so the final bundle holds at most
\* one item per csv_path, also when several kept items are different rows
\* of one table.
C27_FirstPerTableOrId ==
    /\ rg_pc \in {"RENDER_FULL", "DONE"} =>
          rg_deduped = RelevantAt({i \in 1..Len(rg_relevant) :
                          \A j \in 1..(i - 1) : FirstKey(rg_relevant[j]) # FirstKey(rg_relevant[i])})
    /\ rg_pc = "DONE" =>
          \A i, j \in 1..Len(rg_bundle.metadatas) :
              (i # j /\ rg_bundle.metadatas[i].csv_path # "")
                  => rg_bundle.metadatas[i].csv_path # rg_bundle.metadatas[j].csv_path

C27_Witness ==
    /\ rg_pc = "DONE"
    /\ rg_relevant = <<ItemRow2, ItemRow1>>
    /\ rg_bundle.metadatas = <<ItemRow2>>

----------------------------------------------------------------------------
(* Claims about parse failures in the per-item evaluator                    *)

KeyOf(d) == get_cache_key(d, ev_query)

\* C28: a reply that cannot be parsed yields "not relevant", and that verdict
\* is stored in the relevance cache like any other (every key whose entry was
\* last written on an unparsable reply holds False); a later call of
\* evaluate_relevance that meets such an entry for (item id, normalized query)
\* puts the item neither among the candidates to judge nor among the results,
\* and judgment calls are only ever issued for candidates to judge.
C28_ParseFailureIsCached ==
    [][ /\ \A k \in ev_unparsed' : relevance_cache'[k] = "False"
        /\ (ev_pc = "idle" /\ ev_pc' # "idle") =>
              \A i \in 1..Len(ev_docs') :
                  get_cache_key(ev_docs'[i], ev_query') \in ev_unparsed =>
                      /\ \A j \in 1..Len(ev_uncached') : ev_uncached'[j] # ev_docs'[i]
                      /\ \A j \in 1..Len(ev_cache_results') : ev_cache_results'[j] # ev_docs'[i]
                      /\ \A j \in 1..Len(ev_result') : ev_result'[j] # ev_docs'[i]
        /\ \A d \in DocIds :
              ev_calls'[d] > ev_calls[d] =>
                  \E j \in 1..Len(ev_uncached) : ev_uncached[j] = d
        /\ (ev_pc = "gather" /\ ev_pc' = "returned") =>
              \A j \in 1..Len(ev_result') :
                  ev_cache0[KeyOf(ev_result'[j])] # "False"
      ]_vars

\* A call over the items a and b has returned: the entry of a was written
\* on an unparsable reply to an earlier call, so a is dropped with no judgment
\* call, while b is judged and kept.
C28_Witness ==
    /\ ev_pc = "returned"
    /\ ev_docs = <<"a", "b">>
    /\ KeyOf("a") \in ev_unparsed
    /\ ev_cache0[KeyOf("a")] = "False"
    /\ ev_calls["a"] = 0
    /\ ev_calls["b"] = 1
    /\ ev_result = <<"b">>

----------------------------------------------------------------------------
(* Claims about blank chunks in _deduplicate_and_join_text (SpecMerge) *)

\* C29: _deduplicate_and_join_text skips blank chunks and returns the merge of
\* the remaining chunks without raising, for every list of two or more
\* chunks, also when the first chunk is blank and a later one is not.
C29_BlankChunksSkipped ==
    px_done =>
        /\ px_out.error = ""
        /\ px_in.a = <<>> => px_out.text = Tidy(px_in.b)
        /\ px_in.b = <<>> => px_out.text = Tidy(px_in.a)

\* What does hold: a blank chunk after a first chunk that is not blank is
\* skipped, and a list of blank chunks gives the empty text.
BlankLaterChunkSkipped ==
    (px_done /\ (px_in.a # <<>> \/ px_in.b = <<>>)) =>
        /\ px_out.error = ""
        /\ px_in.b = <<>> => px_out.text = Tidy(px_in.a)

----------------------------------------------------------------------------
(* Claims about the hit's own chunk in the window of expand_one (SpecWindow) *)

\* The chunk indices that expand_one requests from the store (line 30).
TargetIndices == px_out.start..(px_out.end - 1)

\* C30: for every text hit with 0 <= idx < total and every window size
\* w >= 2, the window [start, end) computed by expand_one contains idx, so
\* the hit's own chunk is among the chunks requested from the store, also
\* after the window has been shifted at a section boundary.
C30_WindowContainsHit == px_done => px_in.idx \in TargetIndices

\* The last chunk of a section of ten with w = 4: the window [7, 10) is cut
\* by the end of the section and shifted to [6, 10), which holds chunk 9.
C30_Witness ==
    /\ px_done
    /\ px_in = [idx |-> 9, total |-> 10, w |-> 4]
    /\ px_out = [start |-> 6, end |-> 10]
    /\ px_in.idx \in TargetIndices

====
